---------------------------- MODULE Spec2Model ----------------------------
(***************************************************************************)
(* TokenTrim prompt/log optimization engine.                               *)
(*                                                                         *)
(* Texts are TLA+ strings; a character is a string of length 1.  Regular   *)
(* expressions of the source are written as sequences of nodes and run by  *)
(* a backtracking matcher with the priorities of the JavaScript engine     *)
(* (alternatives left to right, greedy or lazy repetition as written).     *)
(***************************************************************************)
EXTENDS Integers, Sequences, FiniteSets, TLC

\* ---------------------------------------------------------------------
\* Characters and strings
\* ---------------------------------------------------------------------

\* The backtick character (a lone backtick cannot be written in a literal).
Backtick == SubSeq("`'", 1, 1)

Fence == Backtick \o Backtick \o Backtick

\* s.charAt(i - 1) for 1 <= i <= s.length, "" outside.
CharAt(s, i) == IF i >= 1 /\ i <= Len(s) THEN SubSeq(s, i, i) ELSE ""

UpperLetters == "ABCDEFGHIJKLMNOPQRSTUVWXYZ"

LowerLetters == "abcdefghijklmnopqrstuvwxyz"

DigitChars == {"0", "1", "2", "3", "4", "5", "6", "7", "8", "9"}

\* \w of a JavaScript regular expression.
WordChars ==
    {"A", "B", "C", "D", "E", "F", "G", "H", "I", "J", "K", "L", "M",
     "N", "O", "P", "Q", "R", "S", "T", "U", "V", "W", "X", "Y", "Z",
     "a", "b", "c", "d", "e", "f", "g", "h", "i", "j", "k", "l", "m",
     "n", "o", "p", "q", "r", "s", "t", "u", "v", "w", "x", "y", "z",
     "0", "1", "2", "3", "4", "5", "6", "7", "8", "9", "_"}

\* \s of a JavaScript regular expression (the ASCII part).
SpaceChars == {" ", "\t", "\n", "\r", "\f"}

UpperSet ==
    {"A", "B", "C", "D", "E", "F", "G", "H", "I", "J", "K", "L", "M",
     "N", "O", "P", "Q", "R", "S", "T", "U", "V", "W", "X", "Y", "Z"}

LowerChar(c) ==
    IF c \in UpperSet
    THEN LET k == CHOOSE j \in 1..26 : SubSeq(UpperLetters, j, j) = c
         IN SubSeq(LowerLetters, k, k)
    ELSE c

\* String.prototype.toLowerCase on s[lo..hi], by halving.
RECURSIVE LowerRange(_, _, _)
LowerRange(s, lo, hi) ==
    IF lo > hi THEN ""
    ELSE IF lo = hi THEN LowerChar(SubSeq(s, lo, lo))
    ELSE LET mid == (lo + hi) \div 2
         IN LowerRange(s, lo, mid) \o LowerRange(s, mid + 1, hi)

toLowerCase(s) == LowerRange(s, 1, Len(s))

\* s.slice(0, n)
SliceTo(s, n) == IF Len(s) <= n THEN s ELSE SubSeq(s, 1, n)

\* s.substring(from - 1) with a 1-based first position.
SliceFrom(s, from) == IF from > Len(s) THEN "" ELSE SubSeq(s, from, Len(s))

StartsWith(s, lit) == Len(s) >= Len(lit) /\ SubSeq(s, 1, Len(lit)) = lit

MinOf(S) == CHOOSE a \in S : \A b \in S : a <= b

MaxOf(S) == CHOOSE a \in S : \A b \in S : a >= b

\* s.indexOf(lit) + 1: the first position of lit in s, 0 when absent.
IndexOf(s, lit) ==
    LET P == { p \in 1..(Len(s) - Len(lit) + 1) : SubSeq(s, p, p + Len(lit) - 1) = lit }
    IN IF P = {} THEN 0 ELSE MinOf(P)

\* s.includes(lit)
Includes(s, lit) == IndexOf(s, lit) # 0

\* String.prototype.trim
trim(s) ==
    LET P == { p \in 1..Len(s) : SubSeq(s, p, p) \notin SpaceChars }
    IN IF P = {} THEN "" ELSE SubSeq(s, MinOf(P), MaxOf(P))

\* s.split('\n')
split(s) ==
    LET NL == { p \in 1..Len(s) : SubSeq(s, p, p) = "\n" }
        Before(p) == Cardinality({ q \in NL : q < p })
        StartOf(k) == IF k = 1 THEN 1
                      ELSE 1 + (CHOOSE p \in NL : Before(p) = k - 2)
        EndOf(k) == IF k = Cardinality(NL) + 1 THEN Len(s)
                    ELSE (CHOOSE p \in NL : Before(p) = k - 1) - 1
    IN [ k \in 1..(Cardinality(NL) + 1) |->
           IF StartOf(k) > EndOf(k) THEN "" ELSE SubSeq(s, StartOf(k), EndOf(k)) ]

\* parts.join(sep)
RECURSIVE JoinRange(_, _, _, _)
JoinRange(parts, sep, lo, hi) ==
    IF lo > hi THEN ""
    ELSE IF lo = hi THEN parts[lo]
    ELSE LET mid == (lo + hi) \div 2
         IN JoinRange(parts, sep, lo, mid) \o sep \o JoinRange(parts, sep, mid + 1, hi)

join(parts, sep) == JoinRange(parts, sep, 1, Len(parts))

\* s.repeat(n)
RECURSIVE repeat(_, _)
repeat(s, n) ==
    IF n <= 0 THEN ""
    ELSE IF n = 1 THEN s
    ELSE LET h == repeat(s, n \div 2)
         IN IF n % 2 = 0 THEN h \o h ELSE h \o h \o s

\* ---------------------------------------------------------------------
\* Regular expressions (RegExp.prototype.exec / test, String.prototype.replace)
\* ---------------------------------------------------------------------

\* Nodes.  A regular expression is a sequence of nodes.
Lit(str) == [t |-> "lit", s |-> str]                   \* abc
LitI(str) == [t |-> "liti", s |-> str]                 \* abc under the i flag, str in lower case
In(cs) == [t |-> "set", cs |-> cs, neg |-> FALSE]      \* [abc]
NotIn(cs) == [t |-> "set", cs |-> cs, neg |-> TRUE]    \* [^abc]
Dot == NotIn({"\n", "\r"})                             \* .
AnyChar == NotIn({})                                   \* [\s\S]
Sp == In(SpaceChars)                                   \* \s
NonSp == NotIn(SpaceChars)                             \* \S
W == In(WordChars)                                     \* \w
D == In(DigitChars)                                    \* \d
Bol == [t |-> "bol", m |-> FALSE]                      \* ^
BolM == [t |-> "bol", m |-> TRUE]                      \* ^ under the m flag
Eol == [t |-> "eol", m |-> FALSE]                      \* $
EolM == [t |-> "eol", m |-> TRUE]                      \* $ under the m flag
WordB == [t |-> "wb"]                                  \* \b
Alt(rs) == [t |-> "alt", rs |-> rs]                    \* (?:a|b|c), rs a sequence of expressions
Rep(r, min, max) == [t |-> "rep", r |-> r, min |-> min, max |-> max, lazy |-> FALSE]
Star(r) == Rep(r, 0, -1)                               \* r*
Plus(r) == Rep(r, 1, -1)                               \* r+
Opt(r) == Rep(r, 0, 1)                                 \* r?
LazyStar(r) == [t |-> "rep", r |-> r, min |-> 0, max |-> -1, lazy |-> TRUE]   \* r*?
LazyPlus(r) == [t |-> "rep", r |-> r, min |-> 1, max |-> -1, lazy |-> TRUE]   \* r+?
Grp(i, r) == [t |-> "grp", i |-> i, r |-> r]           \* the i-th capturing group (r)
\* (a|b|c) of literal alternatives
Words(ws) == Alt([ k \in 1..Len(ws) |-> <<Lit(ws[k])>> ])
WordsI(ws) == Alt([ k \in 1..Len(ws) |-> <<LitI(ws[k])>> ])

\* The result of a match that failed.
NoMatch == [e |-> -1, c |-> <<>>]

IsWordAt(s, p) == CharAt(s, p) \in WordChars

\* Whether the first node of re can match at p at all (a quick test that spares
\* the matcher the positions where it cannot).
RECURSIVE CanStart(_, _, _)
CanStart(re, s, p) ==
    IF re = <<>> THEN TRUE
    ELSE LET n == Head(re)
         IN CASE n.t = "lit" ->
                   p + Len(n.s) - 1 <= Len(s) /\ SubSeq(s, p, p + Len(n.s) - 1) = n.s
              [] n.t = "liti" ->
                   p + Len(n.s) - 1 <= Len(s) /\ LowerChar(SubSeq(s, p, p)) = SubSeq(n.s, 1, 1)
              [] n.t = "set" -> p <= Len(s) /\ ((SubSeq(s, p, p) \in n.cs) # n.neg)
              [] n.t = "bol" -> p = 1 \/ (n.m /\ CharAt(s, p - 1) = "\n")
              [] n.t = "eol" -> p = Len(s) + 1 \/ (n.m /\ CharAt(s, p) = "\n")
              [] n.t = "wb" -> IsWordAt(s, p - 1) # IsWordAt(s, p)
              [] n.t = "grp" -> CanStart(n.r, s, p)
              [] n.t = "alt" -> \E j \in 1..Len(n.rs) : CanStart(n.rs[j], s, p)
              [] n.t = "rep" -> n.min = 0 \/ CanStart(n.r, s, p)
              [] OTHER -> TRUE

\* The number of characters from position p on that node n (a character set) matches.
RunLength(n, s, p) ==
    MinOf({ q \in p..(Len(s) + 1) :
              q = Len(s) + 1 \/ ((SubSeq(s, q, q) \in n.cs) = n.neg) }) - p

\* The backtracking matcher as a machine. Its state: the continuation k (the
\* nodes still to match), the text s, the position p, the captures c, the stack
\* bt of the alternatives still open (the most recent first) and the status
\* "run", "ok" or "fail".
MatchInit(k, s, p, c) == [k |-> k, s |-> s, p |-> p, c |-> c, bt |-> <<>>, status |-> "run"]

\* The match failed here: go on with the most recent open alternative.
Backtrack(st) ==
    IF st.bt = <<>> THEN [st EXCEPT !.status = "fail"]
    ELSE [st EXCEPT !.k = Head(st.bt).k, !.p = Head(st.bt).p, !.c = Head(st.bt).c,
                    !.bt = Tail(st.bt)]

Advance(st, k, p) == [st EXCEPT !.k = k, !.p = p]

\* Go on with k at p and keep the continuation other open at the position of st.
Fork(st, k, p, other) ==
    [st EXCEPT !.k = k, !.p = p, !.bt = <<[k |-> other, p |-> st.p, c |-> st.c]>> \o st.bt]

\* The alternatives js of n (those that can start here), in order.
TryAlternatives(st, n, r, js) ==
    IF js = {} THEN Backtrack(st)
    ELSE IF js = {MinOf(js)} THEN Advance(st, n.rs[MinOf(js)] \o r, st.p)
    ELSE Fork(st, n.rs[MinOf(js)] \o r, st.p,
              <<[t |-> "alts", rs |-> n.rs, js |-> js \ {MinOf(js)}]>> \o r)

\* The repetition counts qs of a one-character repetition that began at base, in
\* the order of the engine: the largest first when greedy, the smallest when lazy.
TryCounts(st, r, base, qs, lazy, q) ==
    IF qs = {q} THEN Advance(st, r, base + q)
    ELSE Fork(st, r, base + q,
              <<[t |-> "cnt", base |-> base, qs |-> qs \ {q}, lazy |-> lazy]>> \o r)

FirstCount(st, r, base, qs, lazy) ==
    IF qs = {} THEN Backtrack(st)
    ELSE TryCounts(st, r, base, qs, lazy, IF lazy THEN MinOf(qs) ELSE MaxOf(qs))

\* The counts lo..hi after which the continuation r can start.
LiveCounts(r, s, p, lo, hi) == { q \in lo..hi : CanStart(r, s, p + q) }

RepeatSet(st, n, r, run) ==
    FirstCount(st, r, st.p,
               LiveCounts(r, st.s, st.p, n.min, IF n.max = -1 \/ run < n.max THEN run ELSE n.max),
               n.lazy)

\* One more round of n.r, then the rest of the repetition.
Round(n, p, min, max) ==
    n.r \o <<[t |-> "chk", p |-> p], [n EXCEPT !.min = min, !.max = max]>>

RepeatAny(st, n, r, less) ==
    IF n.min > 0 THEN Advance(st, n.r \o <<[n EXCEPT !.min = n.min - 1, !.max = less]>> \o r, st.p)
    ELSE IF n.max = 0 THEN Advance(st, r, st.p)
    ELSE IF n.lazy THEN Fork(st, r, st.p, Round(n, st.p, 0, less) \o r)
    ELSE Fork(st, Round(n, st.p, 0, less) \o r, st.p, r)

MatchNode(st, n, r, s, p) ==
    CASE n.t = "lit" ->
           IF p + Len(n.s) - 1 <= Len(s) /\ SubSeq(s, p, p + Len(n.s) - 1) = n.s
           THEN Advance(st, r, p + Len(n.s)) ELSE Backtrack(st)
      [] n.t = "liti" ->
           IF p + Len(n.s) - 1 <= Len(s)
              /\ LowerChar(SubSeq(s, p, p)) = SubSeq(n.s, 1, 1)
              /\ LowerRange(s, p, p + Len(n.s) - 1) = n.s
           THEN Advance(st, r, p + Len(n.s)) ELSE Backtrack(st)
      [] n.t = "set" ->
           IF p <= Len(s) /\ ((SubSeq(s, p, p) \in n.cs) # n.neg)
           THEN Advance(st, r, p + 1) ELSE Backtrack(st)
      [] n.t = "bol" ->
           IF p = 1 \/ (n.m /\ CharAt(s, p - 1) = "\n")
           THEN Advance(st, r, p) ELSE Backtrack(st)
      [] n.t = "eol" ->
           IF p = Len(s) + 1 \/ (n.m /\ CharAt(s, p) = "\n")
           THEN Advance(st, r, p) ELSE Backtrack(st)
      [] n.t = "wb" ->
           IF IsWordAt(s, p - 1) # IsWordAt(s, p)
           THEN Advance(st, r, p) ELSE Backtrack(st)
      [] n.t = "alt" ->
           TryAlternatives(st, n, r, { j \in 1..Len(n.rs) : CanStart(n.rs[j], s, p) })
      [] n.t = "alts" -> TryAlternatives(st, n, r, n.js)
      [] n.t = "grp" ->
           Advance(st, n.r \o <<[t |-> "close", i |-> n.i, st |-> p]>> \o r, p)
      [] n.t = "close" ->
           [st EXCEPT !.k = r, !.c = [st.c EXCEPT ![n.i] = <<n.st, p>>]]
      [] n.t = "chk" ->
           IF p = n.p THEN Backtrack(st) ELSE Advance(st, r, p)
      [] n.t = "cnt" -> FirstCount(st, r, n.base, n.qs, n.lazy)
      [] n.t = "rep" /\ Len(n.r) = 1 /\ Head(n.r).t = "set" ->
           RepeatSet(st, n, r, RunLength(Head(n.r), s, p))
      [] n.t = "rep" ->
           RepeatAny(st, n, r, IF n.max = -1 THEN -1 ELSE n.max - 1)

\* One step of the matcher.
MatchStep(st) ==
    IF st.k = <<>> THEN [st EXCEPT !.status = "ok"]
    ELSE MatchNode(st, Head(st.k), Tail(st.k), st.s, st.p)

\* 2^m steps of the matcher, or fewer when it stops before.
RECURSIVE MatchSteps(_, _)
MatchSteps(st, m) ==
    IF st.status # "run" THEN st
    ELSE IF m = 0 THEN MatchStep(st)
    ELSE MatchSteps(MatchSteps(st, m - 1), m - 1)

\* The matcher run until it stops.
RECURSIVE MatchRun(_, _)
MatchRun(st, m) == IF st.status # "run" THEN st ELSE MatchRun(MatchSteps(st, m), m + 1)

Outcome(st) == IF st.status = "ok" THEN [e |-> st.p, c |-> st.c] ELSE NoMatch

\* Match the continuation k (a sequence of nodes) against s from position p with
\* captures c: the end position (one past the last matched character) and the
\* captures of the first match in backtracking order, or NoMatch.
M(k, s, p, c) == Outcome(MatchRun(MatchInit(k, s, p, c), 3))

NoCaps(ng) == [ g \in 1..ng |-> <<0, 0>> ]

\* The result of exec when nothing matches.
NotFound == [st |-> 0, e |-> -1, c |-> <<>>]

\* Whether re matches s at position p.
Hit(re, ng, s, p) == CanStart(re, s, p) /\ M(re, s, p, NoCaps(ng)).e # -1

\* The positions from lo on where re matches s.
Hits(re, ng, s, lo) == { p \in lo..(Len(s) + 1) : Hit(re, ng, s, p) }

\* The match at position p.
MatchAt(p, m) == [st |-> p, e |-> m.e, c |-> m.c]

\* The leftmost of the matches at the positions ps.
Leftmost(re, ng, s, ps) ==
    IF ps = {} THEN NotFound ELSE MatchAt(MinOf(ps), M(re, s, MinOf(ps), NoCaps(ng)))

\* re.exec(s) with lastIndex = from - 1: [st, e, c], st = 0 when there is no match.
Exec(re, ng, s, from) == Leftmost(re, ng, s, Hits(re, ng, s, from))

\* re.test(s) for a regular expression without the g flag.
Test(re, s) ==
    IF Len(re) = 1 /\ Head(re).t = "lit" THEN Includes(s, Head(re).s)
    ELSE \E p \in 1..(Len(s) + 1) : Hit(re, 0, s, p)

\* The text of capture group g of match m ("" when the group did not take part).
Cap(s, m, g) == IF m.c[g][1] = 0 THEN "" ELSE SubSeq(s, m.c[g][1], m.c[g][2] - 1)

\* The matched text.
Matched(s, m) == SubSeq(s, m.st, m.e - 1)

\* A replacement is a sequence of pieces: Txt("literal text") or Ref(g) for $g.
Txt(str) == [g |-> 0, s |-> str]

Ref(g) == [g |-> g, s |-> ""]

RECURSIVE Expand(_, _, _)
Expand(repl, s, m) ==
    IF repl = <<>> THEN ""
    ELSE (IF Head(repl).g # 0 THEN Cap(s, m, Head(repl).g) ELSE Head(repl).s)
         \o Expand(Tail(repl), s, m)

\* The loop of re.exec(s) for re with the g flag, as a machine: the matches ms
\* found so far, the position from (lastIndex + 1) of the next search, and done
\* once exec has returned null. hits are the positions where re matches s.
NoMatches == [ms |-> <<>>, from |-> 1, done |-> FALSE]

\* After the match m: lastIndex is its end, one further after an empty match.
MatchesAfter(st, m) ==
    IF m.st = 0 THEN [st EXCEPT !.done = TRUE]
    ELSE [st EXCEPT !.ms = Append(st.ms, m),
                    !.from = IF m.e = m.st THEN m.e + 1 ELSE m.e]

MatchesNext(re, ng, s, hits, st) ==
    MatchesAfter(st, Leftmost(re, ng, s, { p \in hits : p >= st.from }))

\* 2^m rounds of the loop, or fewer when it ends before.
RECURSIVE MatchesSteps(_, _, _, _, _, _)
MatchesSteps(re, ng, s, hits, st, m) ==
    IF st.done THEN st
    ELSE IF m = 0 THEN MatchesNext(re, ng, s, hits, st)
    ELSE MatchesSteps(re, ng, s, hits, MatchesSteps(re, ng, s, hits, st, m - 1), m - 1)

RECURSIVE MatchesFrom(_, _, _, _, _, _)
MatchesFrom(re, ng, s, hits, st, m) ==
    IF st.done THEN st.ms
    ELSE MatchesFrom(re, ng, s, hits, MatchesSteps(re, ng, s, hits, st, m), m + 1)

\* All matches of re (g flag) in s, in order: s.match(re), or a loop of re.exec(s).
matchAll(re, ng, s) == MatchesFrom(re, ng, s, Hits(re, ng, s, 1), NoMatches, 0)

\* s.replace(re, repl) for re with the g flag: what lies between the matches ms,
\* and the replacement in place of each match. Spliced is the part of the result
\* for the matches lo..hi: the text before each of them and its replacement.
RECURSIVE Spliced(_, _, _, _, _)
Spliced(repl, s, ms, lo, hi) ==
    IF lo > hi THEN ""
    ELSE IF lo = hi
         THEN SubSeq(s, IF lo = 1 THEN 1 ELSE ms[lo - 1].e, ms[lo].st - 1)
              \o Expand(repl, s, ms[lo])
    ELSE LET mid == (lo + hi) \div 2
         IN Spliced(repl, s, ms, lo, mid) \o Spliced(repl, s, ms, mid + 1, hi)

SpliceAll(repl, s, ms) ==
    IF ms = <<>> THEN s
    ELSE Spliced(repl, s, ms, 1, Len(ms)) \o SliceFrom(s, ms[Len(ms)].e)

\* The test on the length of s has TLC compute s before the search.
ReplaceAll(re, ng, repl, s) ==
    IF Len(s) < 0 THEN s ELSE SpliceAll(repl, s, matchAll(re, ng, s))

\* s.replace(re, repl) for re without the g flag: the first match only.
SpliceFirst(repl, s, m) ==
    IF m.st = 0 THEN s
    ELSE SubSeq(s, 1, m.st - 1) \o Expand(repl, s, m) \o SliceFrom(s, m.e)

ReplaceFirst(re, ng, repl, s) == SpliceFirst(repl, s, Exec(re, ng, s, 1))

\* ---------------------------------------------------------------------
\* TokenEstimator
\* ---------------------------------------------------------------------

\* Math.ceil(num / den) for integers num >= 0, den > 0.
CeilDiv(num, den) == (num + den - 1) \div den

\* /```|`[^`]+`/
hasCodeRe == << Alt(<< <<Lit(Fence)>>,
                      <<Lit(Backtick), Plus(<<NotIn({Backtick})>>), Lit(Backtick)>> >>) >>

\* A rounding that truncates instead of rounding up.
FloorTokens(len, hasCode) == IF hasCode THEN (2 * len) \div 7 ELSE len \div 4

\* Math.ceil(text.length / (hasCode ? 3.5 : 4)); length / 3.5 = 2 * length / 7, and
\* the double quotient is exact when it is an integer and at least 1/7 away from
\* one otherwise, so that Math.ceil of it is the integer ceiling.
CeilTokens(len, hasCode) == IF hasCode THEN CeilDiv(2 * len, 7) ELSE CeilDiv(len, 4)

\* An estimator that counts a text of nothing but white space as empty.
estimateTokensTrimmed(text) ==
    IF trim(text) = "" THEN 0
    ELSE CeilTokens(Len(text), Test(hasCodeRe, text))

\* LocalOptimizer.estimateTokens
estimateTokens(text) ==
    IF text = "" THEN 0
    ELSE CeilTokens(Len(text), Test(hasCodeRe, text))

\* estimateTokens of the backend optimize handler
backendEstimateTokens(text) ==
    CeilTokens(Len(text), Includes(text, Fence) \/ Includes(text, Backtick))

\* estimateTokens of the webview script
webviewEstimateTokens(text) ==
    IF text = "" THEN 0
    ELSE CeilTokens(Len(text), Includes(text, Fence) \/ Includes(text, Backtick))

\* ---------------------------------------------------------------------
\* TextClassifier
\* ---------------------------------------------------------------------

\* \d{n}
Dn(n) == Rep(<<D>>, n, n)

\* \d{4}-\d{2}-\d{2}
DateRe == <<Dn(4), Lit("-"), Dn(2), Lit("-"), Dn(2)>>

\* \d{2}:\d{2}:\d{2}
ClockRe == <<Dn(2), Lit(":"), Dn(2), Lit(":"), Dn(2)>>

\* The indicators of isErrorLog, in the order of the source.
indicators == <<
    \* /\bat\s+\S+\s+\([^)]+:\d+:\d+\)/i
    <<WordB, LitI("at"), Plus(<<Sp>>), Plus(<<NonSp>>), Plus(<<Sp>>), Lit("("),
      Plus(<<NotIn({")"})>>), Lit(":"), Plus(<<D>>), Lit(":"), Plus(<<D>>), Lit(")")>>,
    \* /^\s*at\s+/m
    <<BolM, Star(<<Sp>>), Lit("at"), Plus(<<Sp>>)>>,
    \* /FAIL\s+\S+\.test\.[jt]s/i
    <<LitI("fail"), Plus(<<Sp>>), Plus(<<NonSp>>), LitI(".test."),
      In({"j", "t", "J", "T"}), LitI("s")>>,
    \* /Error:.*\n\s+at\s+/
    <<Lit("Error:"), Star(<<Dot>>), Lit("\n"), Plus(<<Sp>>), Lit("at"), Plus(<<Sp>>)>>,
    \* /Module not found/i
    <<LitI("module not found")>>,
    \* /webpack compiled with \d+ error/i
    <<LitI("webpack compiled with "), Plus(<<D>>), LitI(" error")>>,
    \* /npm ERR!/
    <<Lit("npm ERR!")>>,
    \* /ENOENT|EACCES|ECONNREFUSED/
    <<Words(<<"ENOENT", "EACCES", "ECONNREFUSED">>)>>,
    \* /\d+\s*\|\s*(const|let|var|function|class|import|return|if|for|while)/
    <<Plus(<<D>>), Star(<<Sp>>), Lit("|"), Star(<<Sp>>),
      Words(<<"const", "let", "var", "function", "class", "import", "return",
              "if", "for", "while">>)>>,
    \* /exit code: \d+/i
    <<LitI("exit code: "), Plus(<<D>>)>>,
    \* /##\[error\]/i
    <<LitI("##[error]")>>,
    \* /\d{4}-\d{2}-\d{2}\s+\d{2}:\d{2}:\d{2}\.\d+\s+(INFO|WARN|ERROR|DEBUG)/
    DateRe \o <<Plus(<<Sp>>)>> \o ClockRe
      \o <<Lit("."), Plus(<<D>>), Plus(<<Sp>>), Words(<<"INFO", "WARN", "ERROR", "DEBUG">>)>>,
    \* /Caused by:\s+\w+\.\w+Exception/
    <<Lit("Caused by:"), Plus(<<Sp>>), Plus(<<W>>), Lit("."), Plus(<<W>>), Lit("Exception")>>,
    \* /APPLICATION FAILED TO START/
    <<Lit("APPLICATION FAILED TO START")>>,
    \* /at\s+\w+\.\w+\.\w+\([^)]+\.java:\d+\)/
    <<Lit("at"), Plus(<<Sp>>), Plus(<<W>>), Lit("."), Plus(<<W>>), Lit("."), Plus(<<W>>),
      Lit("("), Plus(<<NotIn({")"})>>), Lit(".java:"), Plus(<<D>>), Lit(")")>>,
    \* /Exception:\s+\w/
    <<Lit("Exception:"), Plus(<<Sp>>), W>>,
    \* /\.java:\d+\)/
    <<Lit(".java:"), Plus(<<D>>), Lit(")")>>,
    \* /^(INFO|ERROR|WARNING|DEBUG):\s+/m
    <<BolM, Words(<<"INFO", "ERROR", "WARNING", "DEBUG">>), Lit(":"), Plus(<<Sp>>)>>,
    \* /Traceback \(most recent call last\)/
    <<Lit("Traceback (most recent call last)")>>,
    \* /File ".*", line \d+/
    <<Lit("File \""), Star(<<Dot>>), Lit("\", line "), Plus(<<D>>)>>,
    \* /^\s+raise\s+\w+/m
    <<BolM, Plus(<<Sp>>), Lit("raise"), Plus(<<Sp>>), Plus(<<W>>)>>,
    \* /\w+Error:\s+/
    <<Plus(<<W>>), Lit("Error:"), Plus(<<Sp>>)>>,
    \* /\w+Exception:\s+/
    <<Plus(<<W>>), Lit("Exception:"), Plus(<<Sp>>)>>,
    \* /^panic:\s+/m
    <<BolM, Lit("panic:"), Plus(<<Sp>>)>>,
    \* /^goroutine\s+\d+\s+\[running\]/m
    <<BolM, Lit("goroutine"), Plus(<<Sp>>), Plus(<<D>>), Plus(<<Sp>>), Lit("[running]")>>,
    \* /^\s+\/\S+\.go:\d+/m
    <<BolM, Plus(<<Sp>>), Lit("/"), Plus(<<NonSp>>), Lit(".go:"), Plus(<<D>>)>>,
    \* /\[signal SIG[A-Z]+:/
    <<Lit("[signal SIG"), Plus(<<In(UpperSet)>>), Lit(":")>>,
    \* /\d{4}-\d{2}-\d{2}T\d{2}:\d{2}:\d{2}\.\d+Z\s+(INFO|WARN|ERROR|DEBUG)/
    DateRe \o <<Lit("T")>> \o ClockRe
      \o <<Lit("."), Plus(<<D>>), Lit("Z"), Plus(<<Sp>>),
           Words(<<"INFO", "WARN", "ERROR", "DEBUG">>)>>,
    \* /gorm:/i
    <<LitI("gorm:")>>,
    \* /CrashLoopBackOff/
    <<Lit("CrashLoopBackOff")>>
  >>

\* The threshold of isErrorLog.
MinIndicators == 2

\* indicators.filter(p => p.test(text)).length
matchCount(text) ==
    LET patterns == indicators
    IN Cardinality({ k \in 1..Len(patterns) : Test(patterns[k], text) })

\* A classifier satisfied with a single indicator.
isErrorLogAny(text) == matchCount(text) >= 1

\* A classifier asking for a third indicator.
isErrorLogStrict(text) == matchCount(text) > MinIndicators

\* LocalOptimizer.isErrorLog
isErrorLog(text) == matchCount(text) >= MinIndicators

\* ---------------------------------------------------------------------
\* ErrorLogCondenser: the pattern tables of optimizeErrorLog
\* ---------------------------------------------------------------------

\* info\s+-\s+ under the i flag
InfoDashRe == <<Bol, LitI("info"), Plus(<<Sp>>), Lit("-"), Plus(<<Sp>>)>>

\* Patterns for noise to remove, in the order of the source.
noisePatterns == <<
    <<Bol, LitI("##[error]")>>,                                 \* /^##\[error\]/i
    InfoDashRe \o <<LitI("using")>>,                            \* /^info\s+-\s+Using/i
    InfoDashRe \o <<LitI("node version")>>,                     \* /^info\s+-\s+Node version/i
    InfoDashRe \o <<LitI("platform")>>,                         \* /^info\s+-\s+Platform/i
    InfoDashRe \o <<LitI("process")>>,                          \* /^info\s+-\s+Process/i
    \* /^\(node:\d+\)\s+ExperimentalWarning/i
    <<Bol, LitI("(node:"), Plus(<<D>>), Lit(")"), Plus(<<Sp>>), LitI("experimentalwarning")>>,
    \* /^\(Use `node --trace-warnings/i
    <<Bol, LitI("(use " \o Backtick \o "node --trace-warnings")>>,
    \* /^-+\s*(Captured|Additional|Repeated|More noise|Nested cause|Another nested)/i
    <<Bol, Plus(<<In({"-"})>>), Star(<<Sp>>),
      WordsI(<<"captured", "additional", "repeated", "more noise", "nested cause",
               "another nested">>)>>,
    <<Bol, Plus(<<In({"-"})>>), Eol>>,                          \* /^-+$/
    <<Bol, Lit("console.error"), Eol>>,                         \* /^console\.error$/
    <<Bol, Star(<<Sp>>), Eol>>,                                 \* /^\s*$/
    \* /^\d{4}-\d{2}-\d{2}\s+\d{2}:\d{2}:\d{2}\.\d+\s+INFO/
    <<Bol>> \o DateRe \o <<Plus(<<Sp>>)>> \o ClockRe
      \o <<Lit("."), Plus(<<D>>), Plus(<<Sp>>), Lit("INFO")>>,
    \* /^\[ERROR\]\s+Failed to execute goal.*Process terminated with exit code/
    <<Bol, Lit("[ERROR]"), Plus(<<Sp>>), Lit("Failed to execute goal"), Star(<<Dot>>),
      Lit("Process terminated with exit code")>>,
    <<Bol, Lit("INFO:"), Plus(<<Sp>>)>>,                        \* /^INFO:\s+/
    \* /^\d{4}-\d{2}-\d{2}\s+\d{2}:\d{2}:\d{2},\d+\s+INFO\s+/
    <<Bol>> \o DateRe \o <<Plus(<<Sp>>)>> \o ClockRe
      \o <<Lit(","), Plus(<<D>>), Plus(<<Sp>>), Lit("INFO"), Plus(<<Sp>>)>>,
    <<Bol, Lit("The above exception was the direct cause")>>,
    <<Bol, Lit("During handling of the above exception")>>,
    \* /^\s*\(repeated \d+ times\)\s*$/
    <<Bol, Star(<<Sp>>), Lit("(repeated "), Plus(<<D>>), Lit(" times)"), Star(<<Sp>>), Eol>>,
    \* /^\d{4}-\d{2}-\d{2}T\d{2}:\d{2}:\d{2}\.\d+Z\s+INFO\s+/
    <<Bol>> \o DateRe \o <<Lit("T")>> \o ClockRe
      \o <<Lit("."), Plus(<<D>>), Lit("Z"), Plus(<<Sp>>), Lit("INFO"), Plus(<<Sp>>)>>,
    <<Lit("Listening on :"), Plus(<<D>>)>>,                     \* /Listening on :\d+/
    <<Lit("Starting API server")>>,
    <<Lit("Loaded config from")>>,
    <<LitI("connection established")>>,                         \* /connection established/i
    <<Lit("Connecting to"), Star(<<Dot>>), Lit(":"), Plus(<<D>>)>>,  \* /Connecting to.*:\d+/
    <<Lit("Shutting down server")>>,
    <<Lit("Closing database connections")>>,
    <<Lit("Server shutdown complete")>>
  >>

\* noisePatterns.some(p => p.test(line))
IsNoise(line) ==
    LET patterns == noisePatterns
    IN \E k \in 1..Len(patterns) : Test(patterns[k], line)

\* Internal frames to skip in stack traces, in the order of the source.
internalPatterns == <<
    <<Lit("node:internal/")>>,
    <<Lit("node_modules/jest")>>,
    <<Lit("node_modules/"), Star(<<Dot>>), Lit("queueRunner")>>,   \* /node_modules\/.*queueRunner/
    <<Lit("at new Promise")>>,
    <<Lit("at mapper"), Sp>>,                                      \* /at mapper\s/
    <<Lit("at Object.asyncJestTest")>>,
    <<Lit("at Module._compile")>>,
    <<Lit("at Module._extensions")>>,
    <<Lit("at Module.load")>>,
    <<Lit("at Module._load")>>,
    <<Lit("at Function.executeUserEntryPoint")>>,
    <<Lit("at node:internal")>>,
    <<Lit("org.springframework.beans.factory.support.")>>,
    <<Lit("org.springframework.context.support.")>>,
    <<Lit("org.springframework.boot.SpringApplication.")>>,
    <<Lit("org.hibernate.boot.")>>,
    <<Lit("org.hibernate.service.internal.")>>,
    <<Lit("org.hibernate.jpa.boot.")>>,
    <<Lit("java.base/java.util.concurrent.")>>,
    <<Lit("... "), Plus(<<D>>), Lit(" common frames omitted")>>,   \* /\.\.\. \d+ common frames omitted/
    <<Lit("site-packages/sqlalchemy/")>>,
    <<Lit("site-packages/starlette/")>>,
    <<Lit("site-packages/fastapi/")>>,
    <<Lit("site-packages/uvicorn/")>>,
    <<Lit("site-packages/anyio/")>>,
    <<Lit("site-packages/httpx/")>>,
    <<Lit("File \"<string>\"")>>,
    <<Lit("/usr/local/go/src/")>>,
    <<Lit("github.com/gin-gonic/gin")>>,
    <<Lit("net/http."), Star(<<Dot>>), Lit(".ServeHTTP")>>,       \* /net\/http\..*\.ServeHTTP/
    <<Lit("net/http.(*conn).serve")>>,
    <<Lit("net/http.serverHandler")>>,
    <<Lit("created by net/http")>>,
    <<Lit("database/sql.(*DB)")>>
  >>

\* internalPatterns.some(p => p.test(text))
IsInternal(text) ==
    LET patterns == internalPatterns
    IN \E k \in 1..Len(patterns) : Test(patterns[k], text)

\* Maximum number of frames kept per error.
MaxFrames == 3

\* The frame counter a duplicate forces, to skip the frames that follow.
SkipFrames == 999

\* Maximum length of an error block that still takes generic context lines.
MaxContextBlock == 5

\* Minimum length (exclusive) of a generic context line.
MinContextLine == 5

\* /\*+\s*$/
starsEndRe == <<Plus(<<In({"*"})>>), Star(<<Sp>>), Eol>>

\* /^\*+\s*$/
starsOnlyRe == <<Bol, Plus(<<In({"*"})>>), Star(<<Sp>>), Eol>>

\* /^-+\s+/
dashSepRe == <<Bol, Plus(<<In({"-"})>>), Plus(<<Sp>>)>>

\* /^\d{4}-\d{2}-\d{2}/
datedRe == <<Bol>> \o DateRe

\* /^\s*(\d+)\s*\|\s*(.+)/
codeMatchRe == <<Bol, Star(<<Sp>>), Grp(1, <<Plus(<<D>>)>>), Star(<<Sp>>), Lit("|"),
                 Star(<<Sp>>), Grp(2, <<Plus(<<Dot>>)>>)>>

\* /^\s*\|?\s*\^/
pointerRe == <<Bol, Star(<<Sp>>), Opt(<<Lit("|")>>), Star(<<Sp>>), Lit("^")>>

\* /^panic:\s*(.+)/
goPanicRe == <<Bol, Lit("panic:"), Star(<<Sp>>), Grp(1, <<Plus(<<Dot>>)>>)>>

\* /^\[signal (SIG\w+):\s*([^\]]+)\]/
goSignalRe == <<Bol, Lit("[signal "), Grp(1, <<Lit("SIG"), Plus(<<W>>)>>), Lit(":"),
                Star(<<Sp>>), Grp(2, <<Plus(<<NotIn({"]"})>>)>>), Lit("]")>>

\* /^goroutine\s+\d+\s+\[running\]:/
goroutineRe == <<Bol, Lit("goroutine"), Plus(<<Sp>>), Plus(<<D>>), Plus(<<Sp>>),
                 Lit("[running]:")>>

\* /^(\S+\/)?(\w+(?:\.\(\*?\w+\))?\.[\w.]+)\(([^)]*)\)$/
goFrameRe == <<Bol, Opt(<<Grp(1, <<Plus(<<NonSp>>), Lit("/")>>)>>),
               Grp(2, <<Plus(<<W>>),
                        Opt(<<Lit(".("), Opt(<<Lit("*")>>), Plus(<<W>>), Lit(")")>>),
                        Lit("."), Plus(<<In(WordChars \cup {"."})>>)>>),
               Lit("("), Grp(3, <<Star(<<NotIn({")"})>>)>>), Lit(")"), Eol>>

\* /^\s+(\S+\.go):(\d+)/
goFileRe == <<Bol, Plus(<<Sp>>), Grp(1, <<Plus(<<NonSp>>), Lit(".go")>>), Lit(":"),
              Grp(2, <<Plus(<<D>>)>>)>>

\* /^\d{4}-\d{2}-\d{2}T\d{2}:\d{2}:\d{2}\.\d+Z\s+(ERROR|WARN)\s+(\S+):(\d+)\s+(.+)/
goLogRe == <<Bol>> \o DateRe \o <<Lit("T")>> \o ClockRe
             \o <<Lit("."), Plus(<<D>>), Lit("Z"), Plus(<<Sp>>),
                  Grp(1, <<Words(<<"ERROR", "WARN">>)>>), Plus(<<Sp>>),
                  Grp(2, <<Plus(<<NonSp>>)>>), Lit(":"), Grp(3, <<Plus(<<D>>)>>),
                  Plus(<<Sp>>), Grp(4, <<Plus(<<Dot>>)>>)>>

\* /^\[Recovery\] panic recovered/
recoveryRe == <<Bol, Lit("[Recovery] panic recovered")>>

\* /^gorm:\s*\[[\d-T:Z.]+\]\s*(.+)/
gormRe == <<Bol, Lit("gorm:"), Star(<<Sp>>), Lit("["),
            Plus(<<In(DigitChars \cup {"-", "T", ":", "Z", "."})>>), Lit("]"),
            Star(<<Sp>>), Grp(1, <<Plus(<<Dot>>)>>)>>

\* /Reason=(CrashLoopBackOff|OOMKilled|Error)/
k8sRe == <<Lit("Reason="), Grp(1, <<Words(<<"CrashLoopBackOff", "OOMKilled", "Error">>)>>)>>

\* /error="([^"]+)"/
goErrorFieldRe == <<Lit("error=\""), Grp(1, <<Plus(<<NotIn({"\""})>>)>>), Lit("\"")>>

\* /^\d{4}-\d{2}-\d{2}T[\d:.]+Z\s+\w+\s+(\S+)\s+(.+?)(?:\s+error=)/
ctxMatchRe == <<Bol>> \o DateRe
                \o <<Lit("T"), Plus(<<In(DigitChars \cup {":", "."})>>), Lit("Z"),
                     Plus(<<Sp>>), Plus(<<W>>), Plus(<<Sp>>), Grp(1, <<Plus(<<NonSp>>)>>),
                     Plus(<<Sp>>), Grp(2, <<LazyPlus(<<Dot>>)>>), Plus(<<Sp>>), Lit("error=")>>

\* /Retrying.*\(attempt \d+\/\d+\)/
retryRe == <<Lit("Retrying"), Star(<<Dot>>), Lit("(attempt "), Plus(<<D>>), Lit("/"),
             Plus(<<D>>), Lit(")")>>

\* /(Liveness|Readiness|Health)\s+probe\s+failed/i
probeRe == <<Grp(1, <<WordsI(<<"liveness", "readiness", "health">>)>>), Plus(<<Sp>>),
             LitI("probe"), Plus(<<Sp>>), LitI("failed")>>

\* /^Traceback \(most recent call last\):/
tracebackRe == <<Bol, Lit("Traceback (most recent call last):")>>

\* /^ERROR:\s+(.+)/
pythonErrorLineRe == <<Bol, Lit("ERROR:"), Plus(<<Sp>>), Grp(1, <<Plus(<<Dot>>)>>)>>

\* /^\s*File "([^"]+)", line (\d+), in (.+)/
pythonFrameRe == <<Bol, Star(<<Sp>>), Lit("File \""), Grp(1, <<Plus(<<NotIn({"\""})>>)>>),
                   Lit("\", line "), Grp(2, <<Plus(<<D>>)>>), Lit(", in "),
                   Grp(3, <<Plus(<<Dot>>)>>)>>

\* /^\s{4,}\S/
pythonCodeRe == <<Bol, Rep(<<Sp>>, 4, -1), NonSp>>

\* /^(\s*)((?:[\w.]+\.)?(?:\w+Exception|\w+Error)):\s*(.+)/
exceptionRe == <<Bol, Grp(1, <<Star(<<Sp>>)>>),
                 Grp(2, <<Opt(<<Plus(<<In(WordChars \cup {"."})>>), Lit(".")>>),
                          Alt(<< <<Plus(<<W>>), Lit("Exception")>>,
                                 <<Plus(<<W>>), Lit("Error")>> >>)>>),
                 Lit(":"), Star(<<Sp>>), Grp(3, <<Plus(<<Dot>>)>>)>>

\* /^\d{4}-\d{2}-\d{2}\s+\d{2}:\d{2}:\d{2}\.\d+\s+(ERROR|WARN)\s+\d+\s+---\s+\[[^\]]+\]\s+(\S+)\s*:\s*(.+)/
springLogRe == <<Bol>> \o DateRe \o <<Plus(<<Sp>>)>> \o ClockRe
                 \o <<Lit("."), Plus(<<D>>), Plus(<<Sp>>),
                      Grp(1, <<Words(<<"ERROR", "WARN">>)>>), Plus(<<Sp>>), Plus(<<D>>),
                      Plus(<<Sp>>), Lit("---"), Plus(<<Sp>>), Lit("["),
                      Plus(<<NotIn({"]"})>>), Lit("]"), Plus(<<Sp>>),
                      Grp(2, <<Plus(<<NonSp>>)>>), Star(<<Sp>>), Lit(":"), Star(<<Sp>>),
                      Grp(3, <<Plus(<<Dot>>)>>)>>

\* /^((?:Type|Reference|Syntax|Range|Module|Resolve)?Error)[\s:]/i
jsErrorRe == <<Bol,
               Grp(1, <<Opt(<<WordsI(<<"type", "reference", "syntax", "range", "module",
                                       "resolve">>)>>), LitI("error")>>),
               In(SpaceChars \cup {":"})>>

\* /^(FAIL|ERROR\s+in)[\s:]/i
buildErrorRe == <<Bol,
                  Grp(1, <<Alt(<< <<LitI("fail")>>,
                                  <<LitI("error"), Plus(<<Sp>>), LitI("in")>> >>)>>),
                  In(SpaceChars \cup {":"})>>

\* /^\s*at\s+/
atFrameRe == <<Bol, Star(<<Sp>>), Lit("at"), Plus(<<Sp>>)>>

\* /^Caused by:\s*(\S+):\s*(.+)/
causedByRe == <<Bol, Lit("Caused by:"), Star(<<Sp>>), Grp(1, <<Plus(<<NonSp>>)>>), Lit(":"),
                Star(<<Sp>>), Grp(2, <<Plus(<<Dot>>)>>)>>

\* /Module not found|Can't resolve/
moduleNotFoundRe == <<Words(<<"Module not found", "Can't resolve">>)>>

\* /^\s*(bullet)\s+/, the bullet being U+25CF
testBulletRe == <<Bol, Star(<<Sp>>), Lit("●"), Plus(<<Sp>>)>>

\* /webpack compiled with \d+ error/
webpackRe == <<Lit("webpack compiled with "), Plus(<<D>>), Lit(" error")>>

\* The verbose webpack/node resolution output to skip.
resolutionNoiseRe ==
    <<Words(<<"Field 'browser'", "Parsed request", "using description file",
              "resolve as module", "single file module", "doesn't exist",
              "looking for modules", "no extension", ".ts doesn't exist",
              ".tsx doesn't exist", ".js doesn't exist", ".json doesn't exist",
              "is not a directory">>)>>

\* /^resolve ['"]/
resolveLineRe == <<Bol, Lit("resolve "), In({"'", "\""})>>

\* /SdkClientException:\s*(.+)/
awsSdkRe == <<Lit("SdkClientException:"), Star(<<Sp>>), Grp(1, <<Plus(<<Dot>>)>>)>>

\* /^\[SQL:/ and /^\[parameters:/
sqlContextRe == <<Bol, Words(<<"[SQL:", "[parameters:">>)>>

\* /^\(Background on this error/
backgroundRe == <<Bol, Lit("(Background on this error")>>

\* ---------------------------------------------------------------------
\* ErrorLogCondenser: the scan of optimizeErrorLog
\* ---------------------------------------------------------------------

\* The scan state at the top of the loop (the locals of optimizeErrorLog).
ScanInit ==
    [ sections |-> <<>>, seenErrors |-> {}, seenStackTraces |-> {},
      currentError |-> <<>>, inStackTrace |-> FALSE, stackFrameCount |-> 0,
      codeContext |-> <<>>, inCodeContext |-> FALSE,
      appFailedBlock |-> <<>>, inAppFailedBlock |-> FALSE ]

\* /\s+at\s+.*$/
atSuffixRe == <<Plus(<<Sp>>), Lit("at"), Plus(<<Sp>>), Star(<<Dot>>), Eol>>

\* /\([^)]+\.java:\d+\)/
javaLocRe == <<Lit("("), Plus(<<NotIn({")"})>>), Lit(".java:"), Plus(<<D>>), Lit(")")>>

\* /\([^)]+:\d+:\d+\)/
jsLocRe == <<Lit("("), Plus(<<NotIn({")"})>>), Lit(":"), Plus(<<D>>), Lit(":"), Plus(<<D>>),
             Lit(")")>>

\* The dedup signature flushError derives from the first line of a block.
FlushSig(firstLine) ==
    trim(ReplaceFirst(jsLocRe, 0, <<>>,
           ReplaceFirst(javaLocRe, 0, <<>>,
             ReplaceFirst(atSuffixRe, 0, <<>>, firstLine))))

\* currentError = []; stackFrameCount = 0; inStackTrace = false
ResetError(st) ==
    [st EXCEPT !.currentError = <<>>, !.stackFrameCount = 0, !.inStackTrace = FALSE]

\* The end of flushError: the block errorText with the signature errorSig.
FlushBlock(st, errorText, errorSig) ==
    IF errorSig \in st.seenErrors
    THEN ResetError(st)
    ELSE ResetError([st EXCEPT !.seenErrors = @ \cup {errorSig},
                               !.sections = Append(@, errorText)])

\* errorText.split('\n')[0]
FirstLineOf(text) == split(text)[1]

FlushText(st, errorText) == FlushBlock(st, errorText, FlushSig(FirstLineOf(errorText)))

flushError(st) ==
    IF st.currentError = <<>> THEN st
    ELSE FlushText(st, trim(join(st.currentError, "\n")))

flushCodeContext(st) ==
    IF st.codeContext # <<>>
    THEN [st EXCEPT !.sections = Append(@, join(st.codeContext, "\n")),
                    !.codeContext = <<>>, !.inCodeContext = FALSE]
    ELSE [st EXCEPT !.inCodeContext = FALSE]

\* currentError.push(text)
Push(st, text) == [st EXCEPT !.currentError = Append(@, text)]

\* seenErrors.add(sig)
Seen(st, sig) == [st EXCEPT !.seenErrors = @ \cup {sig}]

\* /.*\/go\/pkg\/mod\//
goModPrefixRe == <<Star(<<Dot>>), Lit("/go/pkg/mod/")>>

\* /.*\/app\//
appPrefixRe == <<Star(<<Dot>>), Lit("/app/")>>

\* /.*site-packages\//
sitePackagesPrefixRe == <<Star(<<Dot>>), Lit("site-packages/")>>

\* /.*\/usr\/local\/lib\/.*\//
usrLocalLibPrefixRe == <<Star(<<Dot>>), Lit("/usr/local/lib/"), Star(<<Dot>>), Lit("/")>>

\* Go panic: flush, start "panic: msg"
GoPanicRule(st, m, line) ==
    [Push(flushError(st), "panic: " \o Cap(line, m, 1)) EXCEPT !.inStackTrace = FALSE]

\* Go signal line
GoSignalRule(st, m, line) ==
    Push(st, "[" \o Cap(line, m, 1) \o ": " \o Cap(line, m, 2) \o "]")

\* The goroutine header as an opener that flushes the open block.
GoroutineFlushes(st) ==
    [flushError(st) EXCEPT !.inStackTrace = TRUE, !.stackFrameCount = 0]

\* Go goroutine header: a marker of the start of the stack, nothing is flushed
GoroutineRule(st) == [st EXCEPT !.inStackTrace = TRUE, !.stackFrameCount = 0]

\* Go stack frame: package.Function(args)
GoFrameRule(st, m, line) ==
    IF ~IsInternal(line) /\ st.stackFrameCount < MaxFrames
    THEN Push(st, "  " \o Cap(line, m, 2) \o "()")
    ELSE st

\* Go file:line reference
GoFileRule(st, m, line) ==
    LET filepath == Cap(line, m, 1)
        lineNum == Cap(line, m, 2)
        shortPath == ReplaceFirst(appPrefixRe, 0, <<>>,
                       ReplaceFirst(goModPrefixRe, 0, <<>>, filepath))
    IN IF ~IsInternal(filepath) /\ st.stackFrameCount < MaxFrames
       THEN [Push(st, "    " \o shortPath \o ":" \o lineNum)
               EXCEPT !.stackFrameCount = @ + 1]
       ELSE st

\* Go structured ERROR/WARN logs
GoLogRule(st, m, line) ==
    LET level == Cap(line, m, 1)
        file == Cap(line, m, 2)
        lineNum == Cap(line, m, 3)
        message == Cap(line, m, 4)
        sig == level \o ": " \o SliceTo(message, 50)
        s1 == IF sig \notin st.seenErrors
              THEN Push(flushError(Seen(st, sig)),
                        level \o " " \o file \o ":" \o lineNum \o " " \o message)
              ELSE st
    IN [s1 EXCEPT !.inStackTrace = FALSE]

\* GORM SQL query
GormRule(st, m, line) ==
    LET query == Cap(line, m, 1)
        sig == "gorm:" \o SliceTo(query, 30)
    IN IF (Includes(query, "SELECT") \/ Includes(query, "INSERT")
           \/ Includes(query, "UPDATE") \/ Includes(query, "DELETE"))
          /\ sig \notin st.seenErrors
       THEN [Seen(st, sig) EXCEPT !.sections = Append(@, "SQL: " \o query)]
       ELSE st

\* K8s/Container errors
K8sRule(st, m, line) ==
    LET sig == "k8s: " \o Cap(line, m, 1)
    IN IF sig \notin st.seenErrors
       THEN Push(flushError(Seen(st, sig)), "K8s: " \o Cap(line, m, 1))
       ELSE st

\* Go structured log with error field
GoErrorFieldRule(st, m, line) ==
    LET errorMsg == Cap(line, m, 1)
        sig == "error: " \o SliceTo(errorMsg, 40)
        ctxMatch == Exec(ctxMatchRe, 2, line, 1)
    IN IF sig \notin st.seenErrors
       THEN Push(Seen(st, sig),
                 IF ctxMatch.st # 0 THEN Cap(line, ctxMatch, 2) \o ": " \o errorMsg
                 ELSE "Error: " \o errorMsg)
       ELSE st

\* Go liveness/health probe failures
ProbeRule(st, m, line) ==
    IF "probe:failed" \notin st.seenErrors
    THEN Push(Seen(st, "probe:failed"), Cap(line, m, 1) \o " probe failed")
    ELSE st

\* Python Traceback header
TracebackRule(st) ==
    [flushError(st) EXCEPT !.inStackTrace = TRUE, !.stackFrameCount = 0]

\* Python ERROR: line
PythonErrorRule(st, m, line) ==
    LET msg == Cap(line, m, 1)
        sig == "ERROR: " \o SliceTo(msg, 50)
    IN IF Includes(msg, "Exception in ASGI application") THEN st
       ELSE LET s1 == IF sig \notin st.seenErrors
                      THEN Push(flushError(Seen(st, sig)), "ERROR: " \o msg)
                      ELSE st
            IN [s1 EXCEPT !.inStackTrace = FALSE]

\* Python stack frame: File "...", line X, in Y
PythonFrameRule(st, m, line) ==
    LET filepath == Cap(line, m, 1)
        lineNum == Cap(line, m, 2)
        funcName == Cap(line, m, 3)
        shortPath == ReplaceFirst(usrLocalLibPrefixRe, 0, <<>>,
                       ReplaceFirst(sitePackagesPrefixRe, 0, <<>>, filepath))
        s1 == [st EXCEPT !.inStackTrace = TRUE]
    IN IF IsInternal(filepath) THEN s1
       ELSE IF s1.stackFrameCount < MaxFrames
       THEN [Push(s1, "  File \"" \o shortPath \o "\", line " \o lineNum \o ", in " \o funcName)
               EXCEPT !.seenStackTraces = @ \cup {shortPath \o ":" \o lineNum},
                      !.stackFrameCount = @ + 1]
       ELSE s1

\* Python code context line (indented code after File line)
PythonCodeRule(st, line) ==
    IF st.stackFrameCount <= MaxFrames /\ st.currentError # <<>>
    THEN Push(st, "    " \o trim(line))
    ELSE st

\* str.split('.').pop(): the text after the last dot
LastDotPart(str) ==
    LET P == { p \in 1..Len(str) : SubSeq(str, p, p) = "." }
    IN IF P = {} THEN str ELSE SliceFrom(str, MaxOf(P) + 1)

\* Java/Python Exception detection
ExceptionRule(st, m, line) ==
    LET indent == Cap(line, m, 1)
        fullExType == Cap(line, m, 2)
        message == Cap(line, m, 3)
        exType == IF LastDotPart(fullExType) # "" THEN LastDotPart(fullExType) ELSE fullExType
        errorSig == exType \o ": " \o SliceTo(message, 60)
    IN IF errorSig \notin st.seenErrors
       THEN LET s1 == Seen(st, errorSig)
                s2 == IF Len(indent) > 2
                      THEN Push(s1, exType \o ": " \o message)
                      ELSE Push(flushError(s1), exType \o ": " \o message)
            IN [s2 EXCEPT !.inStackTrace = FALSE, !.stackFrameCount = 0]
       ELSE [flushError(st) EXCEPT !.inStackTrace = TRUE, !.stackFrameCount = SkipFrames]

\* Spring Boot log line with ERROR/WARN
SpringLogRule(st, m, line) ==
    LET level == Cap(line, m, 1)
        message == Cap(line, m, 3)
    IN IF level = "ERROR" \/ Includes(message, "Could not")
       THEN [Push(flushError(st), level \o ": " \o message) EXCEPT !.inStackTrace = FALSE]
       ELSE st

\* Detect new JS error
JsErrorRule(st, line) ==
    LET errorMsgSig == ReplaceFirst(atSuffixRe, 0, <<>>, trim(line))
    IN IF errorMsgSig \in st.seenErrors
       THEN [st EXCEPT !.currentError = <<>>, !.inStackTrace = TRUE,
                       !.stackFrameCount = SkipFrames]
       ELSE LET s1 == Seen(st, errorMsgSig)
                s2 == IF Len(s1.currentError) = 1 /\ StartsWith(s1.currentError[1], "●")
                      THEN Push(s1, trim(line))
                      ELSE Push(flushError(s1), trim(line))
            IN [s2 EXCEPT !.inStackTrace = FALSE]

\* FAIL and ERROR lines (webpack/build errors)
BuildErrorRule(st, line) ==
    [Push(flushError(st), trim(line)) EXCEPT !.inStackTrace = FALSE]

\* The rule for "at" frames without the test of the frame counter.
AtFrameAnyCount(st, line) ==
    LET s1 == [st EXCEPT !.inStackTrace = TRUE]
        stackSig == trim(line)
    IN IF IsInternal(line) THEN s1
       ELSE IF stackSig \notin s1.seenStackTraces
       THEN [Push(s1, "  " \o trim(line))
               EXCEPT !.seenStackTraces = @ \cup {stackSig}, !.stackFrameCount = @ + 1]
       ELSE s1

\* Detect start of stack trace (Java or JS)
AtFrameRule(st, line) ==
    LET s1 == [st EXCEPT !.inStackTrace = TRUE]
        stackSig == trim(line)
    IN IF IsInternal(line) THEN s1
       ELSE IF s1.stackFrameCount < MaxFrames /\ stackSig \notin s1.seenStackTraces
       THEN [Push(s1, "  " \o trim(line))
               EXCEPT !.seenStackTraces = @ \cup {stackSig}, !.stackFrameCount = @ + 1]
       ELSE s1

\* Detect "Caused by:"
CausedByRule(st, m, line) ==
    LET exType == Cap(line, m, 1)
        message == Cap(line, m, 2)
        sig == "Caused by: " \o exType
    IN IF sig \notin st.seenErrors
       THEN [Push(flushError(Seen(st, sig)), "Caused by: " \o exType \o ": " \o message)
               EXCEPT !.inStackTrace = FALSE, !.stackFrameCount = 0]
       ELSE [flushError(st) EXCEPT !.inStackTrace = TRUE, !.stackFrameCount = SkipFrames]

\* Module resolution errors, and test suite info: flush and start a block
StartBlockRule(st, line) == Push(flushError(st), trim(line))

\* Keep webpack compilation summary
WebpackRule(st, line) ==
    LET s1 == flushError(st)
    IN [s1 EXCEPT !.sections = Append(@, trim(line))]

\* AWS SDK connection errors
AwsSdkRule(st, m, line) ==
    LET sig == "AWS: " \o SliceTo(Cap(line, m, 1), 50)
    IN IF sig \notin st.seenErrors
       THEN Push(flushError(Seen(st, sig)), "AWS SDK: " \o Cap(line, m, 1))
       ELSE st

\* SQL context (useful for debugging)
SqlContextRule(st, line) ==
    IF st.currentError # <<>> THEN Push(st, trim(line)) ELSE st

\* If we're in an error, add context lines (but not too many)
ContextRule(st, line) ==
    IF st.currentError # <<>> /\ ~st.inStackTrace /\ Len(st.currentError) < MaxContextBlock
       /\ trim(line) # "" /\ Len(trim(line)) > MinContextLine
    THEN Push(st, trim(line))
    ELSE st

\* codeMatch: lines with | showing source
CodeContextRule(st, line) ==
    LET s1 == IF ~st.inCodeContext THEN flushError(st) ELSE st
    IN [s1 EXCEPT !.inCodeContext = TRUE, !.codeContext = Append(@, trim(line))]

\* The error pointer (the ^ line)
PointerRule(st, line) == [st EXCEPT !.codeContext = Append(@, trim(line))]

\* The rules of the loop body after the code-context flush, first match wins.
Rules(st, line) ==
    LET goPanicMatch == Exec(goPanicRe, 1, line, 1)
        goSignalMatch == Exec(goSignalRe, 2, line, 1)
        goFrameMatch == Exec(goFrameRe, 3, line, 1)
        goFileMatch == Exec(goFileRe, 2, line, 1)
        goLogMatch == Exec(goLogRe, 4, line, 1)
        gormMatch == Exec(gormRe, 1, line, 1)
        k8sMatch == Exec(k8sRe, 1, line, 1)
        goErrorFieldMatch == Exec(goErrorFieldRe, 1, line, 1)
        probeMatch == Exec(probeRe, 1, line, 1)
        pythonErrorLine == Exec(pythonErrorLineRe, 1, line, 1)
        pythonFrameMatch == Exec(pythonFrameRe, 3, line, 1)
        exceptionMatch == Exec(exceptionRe, 3, line, 1)
        springLogMatch == Exec(springLogRe, 3, line, 1)
        causedByMatch == Exec(causedByRe, 2, line, 1)
        awsSdkMatch == Exec(awsSdkRe, 1, line, 1)
    IN CASE goPanicMatch.st # 0 -> GoPanicRule(st, goPanicMatch, line)
         [] OTHER ->
       CASE goSignalMatch.st # 0 -> GoSignalRule(st, goSignalMatch, line)
         [] OTHER ->
       CASE Test(goroutineRe, line) -> GoroutineRule(st)
         [] OTHER ->
       CASE goFrameMatch.st # 0 /\ st.inStackTrace -> GoFrameRule(st, goFrameMatch, line)
         [] OTHER ->
       CASE goFileMatch.st # 0 /\ st.inStackTrace -> GoFileRule(st, goFileMatch, line)
         [] OTHER ->
       CASE goLogMatch.st # 0 -> GoLogRule(st, goLogMatch, line)
         [] OTHER ->
       CASE Test(recoveryRe, line) -> st
         [] OTHER ->
       CASE gormMatch.st # 0 -> GormRule(st, gormMatch, line)
         [] OTHER ->
       CASE k8sMatch.st # 0 -> K8sRule(st, k8sMatch, line)
         [] OTHER ->
       CASE goErrorFieldMatch.st # 0 -> GoErrorFieldRule(st, goErrorFieldMatch, line)
         [] OTHER ->
       CASE Test(retryRe, line) -> st
         [] OTHER ->
       CASE probeMatch.st # 0 -> ProbeRule(st, probeMatch, line)
         [] OTHER ->
       CASE Test(tracebackRe, line) -> TracebackRule(st)
         [] OTHER ->
       CASE pythonErrorLine.st # 0 -> PythonErrorRule(st, pythonErrorLine, line)
         [] OTHER ->
       CASE pythonFrameMatch.st # 0 -> PythonFrameRule(st, pythonFrameMatch, line)
         [] OTHER ->
       CASE st.inStackTrace /\ Test(pythonCodeRe, line) /\ ~Includes(line, "File \"")
              -> PythonCodeRule(st, line)
         [] OTHER ->
       CASE exceptionMatch.st # 0 -> ExceptionRule(st, exceptionMatch, line)
         [] OTHER ->
       CASE springLogMatch.st # 0 -> SpringLogRule(st, springLogMatch, line)
         [] OTHER ->
       CASE Test(jsErrorRe, line) -> JsErrorRule(st, line)
         [] OTHER ->
       CASE Test(buildErrorRe, line) -> BuildErrorRule(st, line)
         [] OTHER ->
       CASE Test(atFrameRe, line) -> AtFrameRule(st, line)
         [] OTHER ->
       CASE causedByMatch.st # 0 -> CausedByRule(st, causedByMatch, line)
         [] OTHER ->
       CASE Test(moduleNotFoundRe, line) -> StartBlockRule(st, line)
         [] OTHER ->
       CASE Test(testBulletRe, line) -> StartBlockRule(st, line)
         [] OTHER ->
       CASE Test(webpackRe, line) -> WebpackRule(st, line)
         [] OTHER ->
       CASE Test(resolutionNoiseRe, line) -> st
         [] OTHER ->
       CASE Test(resolveLineRe, trim(line)) -> st
         [] OTHER ->
       CASE awsSdkMatch.st # 0 -> AwsSdkRule(st, awsSdkMatch, line)
         [] OTHER ->
       CASE Test(sqlContextRe, line) -> SqlContextRule(st, line)
         [] OTHER ->
       CASE Test(backgroundRe, line) -> st
         [] OTHER -> ContextRule(st, line)

\* The loop body without the noise filter.
DispatchUnfiltered(st, line) ==
    IF Exec(codeMatchRe, 2, line, 1).st # 0 THEN CodeContextRule(st, line)
    ELSE IF Test(pointerRe, line) THEN PointerRule(st, line)
    ELSE Rules(IF st.inCodeContext /\ st.codeContext # <<>> THEN flushCodeContext(st) ELSE st,
               line)

\* The loop body from the noise filter on (the line is outside the banner block).
Dispatch(st, line) ==
    IF IsNoise(line) THEN st
    ELSE IF Exec(codeMatchRe, 2, line, 1).st # 0 THEN CodeContextRule(st, line)
    ELSE IF Test(pointerRe, line) THEN PointerRule(st, line)
    ELSE Rules(IF st.inCodeContext /\ st.codeContext # <<>> THEN flushCodeContext(st) ELSE st,
               line)

\* One iteration in which the banner block keeps blank lines and lines of stars.
ProcessLineKeepsAll(st, line, next) ==
    IF Test(starsEndRe, line) /\ Includes(next, "APPLICATION FAILED TO START")
    THEN [st EXCEPT !.inAppFailedBlock = TRUE, !.appFailedBlock = <<>>]
    ELSE IF ~st.inAppFailedBlock THEN Dispatch(st, line)
    ELSE IF Test(dashSepRe, line) \/ Test(datedRe, line)
    THEN Dispatch([st EXCEPT !.inAppFailedBlock = FALSE], line)
    ELSE [st EXCEPT !.appFailedBlock = Append(@, trim(line))]

\* One iteration of the loop over lines; next is lines[i + 1] ("" past the end).
ProcessLine(st, line, next) ==
    IF Test(starsEndRe, line) /\ Includes(next, "APPLICATION FAILED TO START")
    THEN [st EXCEPT !.inAppFailedBlock = TRUE, !.appFailedBlock = <<>>]
    ELSE IF ~st.inAppFailedBlock THEN Dispatch(st, line)
    ELSE IF Test(starsOnlyRe, line) THEN st
    ELSE IF Test(dashSepRe, line) \/ Test(datedRe, line)
    THEN Dispatch([st EXCEPT !.inAppFailedBlock = FALSE], line)
    ELSE IF trim(line) # "" THEN [st EXCEPT !.appFailedBlock = Append(@, trim(line))]
    ELSE st

\* The iterations lo..hi of the loop over lines, by halving. The test on the
\* banner block has TLC compute the state of the first half before the second.
RECURSIVE ScanRange(_, _, _, _)
ScanRange(st, lines, lo, hi) ==
    IF Len(st.appFailedBlock) < 0 \/ lo > hi THEN st
    ELSE IF lo = hi
         THEN ProcessLine(st, lines[lo], IF lo < Len(lines) THEN lines[lo + 1] ELSE "")
    ELSE ScanRange(ScanRange(st, lines, lo, (lo + hi) \div 2), lines, (lo + hi) \div 2 + 1, hi)

\* The loop over lines[i..].
Scan(st, lines, i) == ScanRange(st, lines, i, Len(lines))

\* appFailedBlock.filter(line => !line.includes('APPLICATION FAILED TO START'))
filteredBlock(block) ==
    SelectSeq(block, LAMBDA l : ~Includes(l, "APPLICATION FAILED TO START"))

\* The output with the header only when there is a section.
BuildForSections(fin, input0) ==
    LET body == trim(join(fin.sections, "\n\n"))
        withBlock == IF fin.appFailedBlock # <<>>
                     THEN body \o "\n\nAPPLICATION FAILED TO START\n"
                               \o join(filteredBlock(fin.appFailedBlock), "\n")
                     ELSE body
        res == IF fin.sections # <<>>
               THEN "Fix these errors:\n\n" \o withBlock
               ELSE withBlock
    IN IF res # "" THEN res ELSE input0

\* The output built from the sections and the banner block of the final state.
Build(fin, input0) ==
    LET body == trim(join(fin.sections, "\n\n"))
        withBlock == IF fin.appFailedBlock # <<>>
                     THEN body \o "\n\nAPPLICATION FAILED TO START\n"
                               \o join(filteredBlock(fin.appFailedBlock), "\n")
                     ELSE body
        res == IF fin.sections # <<>> \/ fin.appFailedBlock # <<>>
               THEN "Fix these errors:\n\n" \o withBlock
               ELSE withBlock
    IN IF res # "" THEN res ELSE input0

\* The end of optimizeErrorLog: flush what is pending and build the output.
Assemble(st, input0) == Build(flushCodeContext(flushError(st)), input0)

optimizeErrorLog(text) == Assemble(Scan(ScanInit, split(text), 1), text)

\* ---------------------------------------------------------------------
\* PromptRewriter (LocalOptimizer.optimizePrompt)
\* ---------------------------------------------------------------------

Gap == Plus(<<Sp>>)                                        \* \s+

Pad == Star(<<Sp>>)                                        \* \s*

\* w1\s+w2\s+...\s+wn under the i flag
Phrase(ws) ==
    [ k \in 1..(2 * Len(ws) - 1) |-> IF k % 2 = 1 THEN LitI(ws[(k + 1) \div 2]) ELSE Gap ]

\* (?:w1\s+...\s+wn\s+)?
OptPhrase(ws) == Opt(Phrase(ws) \o <<Gap>>)

Stops == {".", "!", "?"}

\* [^.!?\n]*[.!?]?\s*
RestOfSentence == <<Star(<<NotIn(Stops \cup {"\n"})>>), Opt(<<In(Stops)>>), Pad>>

\* [.!?]?\s*
StopPad == <<Opt(<<In(Stops)>>), Pad>>

\* i'?m and i'?ve under the i flag
Im == <<LitI("i"), Opt(<<Lit("'")>>), LitI("m")>>

Ive == <<LitI("i"), Opt(<<Lit("'")>>), LitI("ve")>>

\* One step of a chain of replacements: text.replace(re, repl), re with the g flag.
Step(re, ng, repl) == [re |-> re, ng |-> ng, repl |-> repl]

\* for (const p of steps) text = text.replace(p.re, p.repl), for the steps lo..hi.
\* The test on the length of text has TLC compute each step before the next one.
RECURSIVE ReplaceRange(_, _, _, _)
ReplaceRange(steps, lo, hi, text) ==
    IF Len(text) < 0 \/ lo > hi THEN text
    ELSE IF lo = hi
         THEN ReplaceAll(steps[lo].re, steps[lo].ng, steps[lo].repl, text)
    ELSE ReplaceRange(steps, (lo + hi) \div 2 + 1, hi,
                      ReplaceRange(steps, lo, (lo + hi) \div 2, text))

ReplaceEach(steps, k, text) == ReplaceRange(steps, k, Len(steps), text)

\* [...new Set(xs)]: the first occurrence of each element, in order.
Unique(xs) ==
    SelectSeq([ k \in 1..Len(xs) |->
                  IF \E j \in 1..(k - 1) : xs[j] = xs[k] THEN <<>> ELSE <<xs[k]>> ],
              LAMBDA x : x # <<>>)

Firsts(xs) == LET u == Unique(xs) IN [ k \in 1..Len(u) |-> u[k][1] ]

\* s.replace(lit, '') for a string lit: the first occurrence only.
RemoveFirst(s, lit) ==
    LET p == IndexOf(s, lit)
    IN IF p = 0 THEN s ELSE SubSeq(s, 1, p - 1) \o SliceFrom(s, p + Len(lit))

stackRe ==
    <<WordB,
      WordsI(<<"react", "vue", "angular", "typescript", "javascript", "python", "nodejs">>
             \o <<"node.js", "dynamodb", "mongodb", "postgresql", "mysql", "redis", "aws">>
             \o <<"gcp", "azure", "oauth", "nextjs", "express">>),
      WordB>>

MaxStack == 4

\* stack = [...new Set(stackMatches.map(s => s.toLowerCase().replace('.', '')))].slice(0, 4)
StackNames(s, ms) ==
    SliceTo(Firsts([ k \in 1..Len(ms) |->
                       RemoveFirst(toLowerCase(Matched(s, ms[k])), ".") ]), MaxStack)

stackOf(text) == StackNames(text, matchAll(stackRe, 0, text))

\* ```[\w]*\s*([\s\S]*?)```
fencedCodeRe == <<Lit(Fence), Star(<<W>>), Pad, Grp(1, <<LazyStar(<<AnyChar>>)>>), Lit(Fence)>>

\* `([^`]+)`
inlineCodeRe == <<Lit(Backtick), Grp(1, <<Plus(<<NotIn({Backtick})>>)>>), Lit(Backtick)>>

\* The callback of both code replacements: the trimmed captures that are not empty.
CodeOf(s, ms) ==
    SelectSeq([ k \in 1..Len(ms) |-> trim(Cap(s, ms[k], 1)) ], LAMBDA c : c # "")

\* ^(hey|hi|hello|please\?*|so|okay|alright|well)\s*[,!.]?\s*   (flag i)
greetingRe ==
    <<Bol,
      Alt(<< <<LitI("hey")>>, <<LitI("hi")>>, <<LitI("hello")>>,
             <<LitI("please"), Star(<<Lit("?")>>)>>,
             <<LitI("so")>>, <<LitI("okay")>>, <<LitI("alright")>>, <<LitI("well")>> >>),
      Pad, Opt(<<In({",", "!", "."})>>), Pad>>

junkPatterns == <<
    \* Emotional
    Im \o <<Gap, LitI("having"), Gap, OptPhrase(<<"this">>),
            Opt(<<LitI("a"), Opt(<<LitI("n")>>), Gap>>), OptPhrase(<<"annoying">>)>>,
    Im \o <<Gap, OptPhrase(<<"so">>),
            Alt(<< <<LitI("frustrated")>>, <<LitI("confused")>>, <<LitI("stuck")>>,
                   Phrase(<<"going", "crazy">>) >>)>> \o RestOfSentence,
    Ive \o <<Gap, LitI("been"), Gap, WordsI(<<"trying", "working", "debugging">>)>>
        \o RestOfSentence,
    <<LitI("this"), Gap, OptPhrase(<<"is">>), OptPhrase(<<"so">>),
      WordsI(<<"frustrating", "confusing", "annoying", "stupid">>)>> \o RestOfSentence,
    Ive \o <<Gap>> \o Phrase(<<"tried", "everything">>) \o StopPad,
    <<LitI("nothing"), Gap,
      Alt(<< <<LitI("works")>>, Phrase(<<"is", "working">>) >>)>> \o StopPad,
    <<OptPhrase(<<"and">>), LitI("i"), Gap, LitI("don"), Opt(<<Lit("'")>>), LitI("t"), Gap,
      LitI("know"), Gap,
      Alt(<< <<LitI("why")>>, Phrase(<<"what", "to", "do">>) >>)>> \o RestOfSentence,
    \* Help requests
    <<Opt(<<LitI("please"), Pad>>), OptPhrase(<<"can", "you">>), OptPhrase(<<"please">>),
      LitI("help"), Opt(<<Gap, LitI("me")>>), Opt(<<Gap, LitI("fix")>>),
      Opt(<<Gap, LitI("this")>>)>> \o StopPad,
    <<LitI("my"), Gap, WordsI(<<"deadline", "boss", "manager">>)>> \o RestOfSentence,
    <<LitI("i"), Gap, OptPhrase(<<"really">>)>> \o Phrase(<<"need", "this", "working">>)
        \o RestOfSentence,
    \* Fragments
    <<LitI("that"), Gap, LitI("occur"), Opt(<<LitI("s")>>), Gap, LitI("up"),
      Opt(<<Lit(".")>>), Pad>>,
    <<LitI("it"), Plus(<<Lit("?")>>), Plus(<<Lit(".")>>), Pad>>,
    <<LitI("i"), Gap, LitI("tried"), Star(<<NotIn(Stops \cup {"\n"})>>), LitI("but"),
      Opt(<<Lit(".")>>), Pad>>,
    <<LitI("i"), Gap, LitI("need"), Gap, OptPhrase(<<"this">>), OptPhrase(<<"code">>),
      OptPhrase(<<"to", "be">>), OptPhrase(<<"super">>),
      WordsI(<<"advanced", "good", "perfect">>),
      Star(<<NotIn(Stops \cup {"\n"})>>), Opt(<<Lit(".")>>), Pad>>
>>

\* for (const p of junkPatterns) text = text.replace(p, ' ')
JunkSteps == LET js == junkPatterns IN [ k \in 1..Len(js) |-> Step(js[k], 0, <<Txt(" ")>>) ]

\* Signoffs and fillers, each replaced by ''.
fillerPatterns == <<
    <<LitI("thank"), Opt(<<LitI("s")>>), Pad,
      Opt(<<Alt(<< Phrase(<<"so", "much">>), Phrase(<<"in", "advance">>),
                   Phrase(<<"a", "lot">>), <<LitI("you")>> >>)>>),
      Star(<<In(Stops)>>), Pad, Eol>>,
    <<WordB,
      WordsI(<<"basically", "honestly", "really", "actually", "literally", "just", "very">>
             \o <<"simply", "obviously", "anymore">>),
      WordB>>,
    <<WordB,
      Alt(<< Phrase(<<"i", "think">>), Phrase(<<"i", "believe">>), Phrase(<<"i", "guess">>),
             Phrase(<<"you", "know">>), Phrase(<<"i", "mean">>) >>),
      WordB>>
>>

FillerSteps == LET fs == fillerPatterns IN [ k \in 1..Len(fs) |-> Step(fs[k], 0, <<>>) ]

\* \s+(a\s+)?  after a verb
ThenA == <<Gap, OptPhrase(<<"a">>)>>

condensers == <<
    Step(<<WordB>> \o Phrase(<<"i", "want", "to", "build">>) \o ThenA, 0, <<Txt("Build: ")>>),
    Step(<<WordB>> \o Phrase(<<"i", "would", "like">>)
             \o <<Gap, OptPhrase(<<"to">>), WordsI(<<"build", "create", "make", "have">>)>>
             \o ThenA, 0, <<Txt("Build: ")>>),
    Step(<<WordB>> \o Phrase(<<"i", "need", "to">>)
             \o <<Gap, WordsI(<<"build", "create", "make", "implement">>)>> \o ThenA,
         0, <<Txt("Build: ")>>),
    Step(<<WordB>> \o Phrase(<<"i", "want", "to">>)
             \o <<Gap, WordsI(<<"create", "make", "implement">>)>> \o ThenA,
         0, <<Txt("Build: ")>>),
    Step(<<WordB>> \o Phrase(<<"the", "system", "should", "use">>) \o <<Gap>>,
         0, <<Txt("Use: ")>>),
    Step(<<WordB>> \o Phrase(<<"it", "should", "use">>) \o <<Gap>>, 0, <<Txt("Use: ")>>),
    Step(<<WordB>> \o Phrase(<<"i", "would", "like", "it", "to", "be">>) \o <<Gap>>, 0, <<>>),
    Step(<<WordB>> \o Phrase(<<"it", "should", "be">>) \o <<Gap>>, 0, <<>>),
    Step(<<WordB>> \o Phrase(<<"there", "should">>)
             \o <<Gap, OptPhrase(<<"only">>), OptPhrase(<<"ever">>), LitI("be"), Gap>>,
         0, <<Txt("Constraint: ")>>),
    Step(<<WordB>> \o Phrase(<<"stored", "in">>) \o <<Gap>>, 0, <<Txt("Store: ")>>),
    Step(<<WordB>> \o Phrase(<<"sstored", "in">>) \o <<Gap>>, 0, <<Txt("Store: ")>>),
    Step(<<WordB, Grp(1, <<WordsI(<<"futuristic", "modern">>)>>), Opt(<<Lit(",")>>), Pad,
           Grp(2, <<WordsI(<<"clean", "minimal">>)>>), Opt(<<Lit(",")>>), Pad,
           Grp(3, <<WordsI(<<"dark", "light">>)>>), Opt(<<Lit(",")>>), Pad,
           Opt(<<WordsI(<<"looking", "themed", "style">>)>>),
           Opt(<<Lit(".")>>), Opt(<<Lit(".")>>), Opt(<<Lit(".")>>), Pad>>,
         3, <<Txt("UI: "), Ref(1), Txt(", "), Ref(2), Txt(", "), Ref(3), Txt(". ")>>),
    Step(<<WordB, OptPhrase(<<"a">>)>> \o Phrase(<<"feature", "for">>)
             \o <<Gap, OptPhrase(<<"a">>)>>, 0, <<>>),
    Step(<<WordB, OptPhrase(<<"a">>)>> \o Phrase(<<"user", "login", "screen">>),
         0, <<Txt("login screen")>>),
    Step(<<WordB>> \o Phrase(<<"tied", "to">>)
             \o <<Gap, LitI("a"), Opt(<<LitI("n")>>), Gap, LitI("account")>>,
         0, <<Txt("per account")>>),
    Step(<<WordB>> \o Phrase(<<"1", "email">>) \o <<Gap>>, 0, <<Txt("unique email ")>>)
>>

\* The placeholders are removed, then the chain of clean-up replacements.
cleanupSteps == <<
    Step(<<Lit("[[INLINE]]")>>, 0, <<>>),
    Step(<<Lit("[[CODE]]")>>, 0, <<>>),
    Step(<<Gap>>, 0, <<Txt(" ")>>),
    Step(<<Pad, Grp(1, <<In(Stops \cup {","})>>), Pad>>, 1, <<Ref(1), Txt(" ")>>),
    Step(<<Grp(1, <<In(Stops)>>), Pad, Plus(<<Grp(2, <<In(Stops)>>)>>)>>, 2, <<Ref(1)>>),
    Step(<<Bol, Pad, In(Stops \cup {","}), Pad>>, 0, <<>>),
    Step(<<Pad, In(Stops \cup {","}), Pad, Eol>>, 0, <<>>),
    Step(<<Lit(":"), Pad, Lit(":")>>, 0, <<Txt(":")>>),
    Step(<<Lit("."), Pad, Lit(".")>>, 0, <<Txt(".")>>),
    Step(<<LitI("build:"), Pad, LitI("build:")>>, 0, <<Txt("Build:")>>)
>>

MinTextLength == 10

CodeMark == "\n[[CODE]]\n"

InlineMark == "[[INLINE]]"

\* \n{3,}
blankRunRe == <<Rep(<<Lit("\n")>>, 3, -1)>>

\* STEP 2 to STEP 4 of optimizePrompt on the text without its code.
CleanText(text) ==
    trim(ReplaceEach(cleanupSteps, 1,
           ReplaceEach(condensers, 1,
             ReplaceEach(FillerSteps, 1,
               ReplaceEach(JunkSteps, 1, ReplaceFirst(greetingRe, 0, <<>>, text))))))

FencedBlock(code) == Fence \o "\n" \o code \o "\n" \o Fence

\* STEP 5: the parts of the output.
PartsOf(stack, text, codeBlocks) ==
    (IF Len(stack) > 0 THEN << "[" \o join(stack, ", ") \o "]" >> ELSE <<>>)
    \o (IF Len(text) > MinTextLength THEN <<text>> ELSE <<>>)
    \o [ k \in 1..Len(codeBlocks) |-> FencedBlock(codeBlocks[k]) ]

OrInput(out, text) == IF out = "" THEN text ELSE out

\* The test on the parts has TLC compute them before they are joined.
PromptOutput(parts, text) ==
    IF Len(parts) < 0 THEN text
    ELSE OrInput(trim(ReplaceAll(blankRunRe, 0, <<Txt("\n\n")>>, trim(join(parts, "\n")))), text)

\* optimizePrompt after the fenced code was taken out: text1 is the text with
\* the fenced blocks marked, fenced the blocks collected so far.
AfterFenced(text1, fenced, text) ==
    IF Len(text1) < 0 THEN text
    ELSE PromptOutput(
        PartsOf(stackOf(text),
                CleanText(ReplaceAll(inlineCodeRe, 1, <<Txt(InlineMark)>>, text1)),
                fenced \o CodeOf(text1, matchAll(inlineCodeRe, 1, text1))),
        text)

optimizePrompt(text) ==
    AfterFenced(ReplaceAll(fencedCodeRe, 1, <<Txt(CodeMark)>>, text),
                CodeOf(text, matchAll(fencedCodeRe, 1, text)),
                text)

debugWordsRe ==
    <<WordB, Words(<<"error", "exception", "bug", "fix", "crash", "undefined", "null",
                     "typeerror">>), WordB>>

explainWordsRe == <<WordB, Words(<<"explain", "what is", "how does", "why does">>), WordB>>

createWordsRe ==
    <<WordB, Words(<<"create", "build", "implement", "write", "generate", "make", "add">>),
      WordB>>

WhenLower(lower) ==
    IF Test(debugWordsRe, lower) THEN "debug"
    ELSE IF Test(explainWordsRe, lower) THEN "explain"
    ELSE IF Test(createWordsRe, lower) THEN "create"
    ELSE "general"

detectIntent(text) == WhenLower(toLowerCase(text))

\* ---------------------------------------------------------------------
\* LocalOptimizer.optimize (the facade)
\* ---------------------------------------------------------------------

\* A rewrite is kept only when it is shorter than KeepPercent % of the original:
\* optimized.length >= original.length * 0.95 is 100 * n >= 95 * len on integers.
KeepPercent == 95

HalfPercent == 50

\* Math.round(p / q) for p >= 0, q > 0
RoundDiv(p, q) == (2 * p + q) \div (2 * q)

\* Math.round((1 - optimizedTokens / originalTokens) * 100), not raised to 0.
SavingsUnclamped(originalTokens, optimizedTokens) ==
    IF originalTokens = 0 THEN 0
    ELSE RoundDiv(100 * (originalTokens - optimizedTokens), originalTokens)

\* Math.max(0, Math.round((1 - optimizedTokens / originalTokens) * 100))
SavingsOf(originalTokens, optimizedTokens) ==
    IF optimizedTokens >= originalTokens THEN 0
    ELSE RoundDiv(100 * (originalTokens - optimizedTokens), originalTokens)

\* savings >= 50 ? Math.round(savings * 0.5) : Math.round(savings * 0.3)
OutputSavingsOf(savings) ==
    IF savings >= HalfPercent THEN RoundDiv(savings, 2) ELSE RoundDiv(3 * savings, 10)

EmptyResult(text) ==
    [original |-> text, optimized |-> "", originalTokens |-> 0, optimizedTokens |-> 0,
     savings |-> 0, intent |-> "general", estimatedOutputSavings |-> 0]

\* The guardrail with the boundary on the other side: a rewrite of exactly
\* KeepPercent % of the original is kept.
GuardrailInclusive(original, optimized) ==
    IF 100 * Len(optimized) > KeepPercent * Len(original) THEN original ELSE optimized

\* "Don't make things worse"
Guardrail(original, optimized) ==
    IF 100 * Len(optimized) >= KeepPercent * Len(original) THEN original ELSE optimized

WithSavings(text, optimized, originalTokens, optimizedTokens, savings, intent) ==
    [original |-> text, optimized |-> optimized, originalTokens |-> originalTokens,
     optimizedTokens |-> optimizedTokens, savings |-> savings, intent |-> intent,
     estimatedOutputSavings |-> OutputSavingsOf(savings)]

WithTokens(text, original, optimized, originalTokens, optimizedTokens, intent) ==
    WithSavings(text, optimized, originalTokens, optimizedTokens,
                IF original = optimized THEN 0
                ELSE SavingsOf(originalTokens, optimizedTokens),
                intent)

Guarded(text, original, optimized, intent) ==
    WithTokens(text, original, optimized, estimateTokens(original),
               estimateTokens(optimized), intent)

Routed(text, original, isLog) ==
    IF isLog
    THEN Guarded(text, original, Guardrail(original, optimizeErrorLog(original)), "debug")
    ELSE Guarded(text, original, Guardrail(original, optimizePrompt(original)),
                 detectIntent(original))

Trimmed(text, original) ==
    IF original = "" THEN EmptyResult(text)
    ELSE Routed(text, original, isErrorLog(original))

optimize(text) == Trimmed(text, trim(text))

\* ---------------------------------------------------------------------
\* The server-side pipeline (backend/handlers/users.ts)
\* ---------------------------------------------------------------------

\* \b(w1|w2|...)\b under the i flag
Bounded(ws) == <<WordB, WordsI(ws), WordB>>

FILLER_PATTERNS == <<
    Bounded(<<"basically", "essentially", "actually", "literally", "really", "very", "just">>
            \o <<"simply", "obviously", "clearly">>),
    Bounded(<<"i think", "i believe", "i guess", "i suppose", "i mean", "you know", "like">>),
    Bounded(<<"kind of", "sort of", "type of">>),
    <<WordB, Lit("in order to"), WordB>>,
    <<WordB, Lit("the fact that"), WordB>>,
    Bounded(<<"at this point in time">>),
    Bounded(<<"due to the fact that">>),
    Bounded(<<"for the purpose of">>),
    Bounded(<<"in the event that">>),
    Bounded(<<"it is important to note that">>),
    Bounded(<<"please note that">>),
    Bounded(<<"as you can see">>),
    <<WordB, LitI("as mentioned "),
      WordsI(<<"above", "below", "earlier", "before", "previously">>), WordB>>,
    Bounded(<<"in my opinion">>),
    Bounded(<<"to be honest">>),
    Bounded(<<"at the end of the day">>),
    Bounded(<<"when it comes to">>),
    Bounded(<<"the thing is">>),
    Bounded(<<"i was wondering if">>),
    Bounded(<<"would it be possible to">>),
    Bounded(<<"i would appreciate it if you could">>),
    Bounded(<<"thanks in advance">>),
    Bounded(<<"thank you so much">>),
    Bounded(<<"i really need", "i desperately need">>),
    Bounded(<<"as soon as possible", "asap">>),
    Bounded(<<"if that makes sense">>),
    Bounded(<<"does that make sense">>),
    Bounded(<<"if you know what i mean">>),
    <<WordB, Alt(<< <<LitI("and stuff")>>, <<LitI("and things")>>,
                    <<LitI("etc"), Opt(<<Lit(".")>>)>> >>), WordB>>
>>

EMOTIONAL_FILLERS == <<
    <<WordB,
      Alt(<< Im \o <<Lit(" "), Opt(<<LitI("so ")>>), LitI("frustrated")>>,
             <<LitI("this is "), Opt(<<LitI("so ")>>), LitI("frustrating")>>,
             <<LitI("ugh")>>, <<LitI("argh")>> >>),
      WordB>>,
    <<WordB>> \o Ive
        \o <<LitI(" been "), WordsI(<<"trying", "working on">>), Lit(" "),
             Opt(<<LitI("this ")>>),
             Alt(<< <<LitI("for "), WordsI(<<"hours", "days", "weeks">>)>>,
                    <<LitI("all day")>> >>),
             WordB>>,
    <<WordB,
      Alt(<< Im \o <<Lit(" "), Opt(<<LitI("really ")>>), LitI("stuck")>>,
             Im \o <<LitI(" lost")>>, Im \o <<LitI(" confused")>> >>),
      WordB>>,
    <<WordB, LitI("my "), WordsI(<<"boss", "manager", "client", "deadline">>), Lit(" "),
      WordsI(<<"is", "will be">>), WordB>>,
    Bounded(<<"this is urgent", "this is critical", "this is important">>),
    Bounded(<<"please help", "can someone help", "need help">>),
    <<WordB, LitI("any help "), WordsI(<<"would be", "is">>), Lit(" "),
      Opt(<<LitI("greatly ")>>), LitI("appreciated"), WordB>>
>>

\* Each pattern of a list replaced by ''.
Removals(ps) == [ k \in 1..Len(ps) |-> Step(ps[k], 0, <<>>) ]

normalizeSteps == <<
    Step(<<Lit("\r\n")>>, 0, <<Txt("\n")>>),
    Step(<<Lit("\t")>>, 0, <<Txt("  ")>>),
    Step(<<Plus(<<In({" "})>>)>>, 0, <<Txt(" ")>>),
    Step(<<Rep(<<In({"\n"})>>, 3, -1)>>, 0, <<Txt("\n\n")>>)
>>

normalize(text) == trim(ReplaceEach(normalizeSteps, 1, text))

fluffCleanupSteps == <<
    Step(<<Gap>>, 0, <<Txt(" ")>>),
    Step(<<Gap, Grp(1, <<In({".", ",", "!", "?"})>>)>>, 1, <<Ref(1)>>)
>>

removeFluff(text) ==
    trim(ReplaceEach(fluffCleanupSteps, 1,
           ReplaceEach(Removals(EMOTIONAL_FILLERS), 1,
             ReplaceEach(Removals(FILLER_PATTERNS), 1, text))))

\* The decimal digits of n >= 0, as `${n}` prints them.
RECURSIVE DecimalOf(_)
DecimalOf(n) ==
    IF n < 10 THEN SubSeq("0123456789", n + 1, n + 1)
    ELSE DecimalOf(n \div 10) \o SubSeq("0123456789", (n % 10) + 1, (n % 10) + 1)

Placeholder(n) == "{{CODE_BLOCK_" \o DecimalOf(n) \o "}}"

\* ```[\s\S]*?```
backendFencedRe == <<Lit(Fence), LazyStar(<<AnyChar>>), Lit(Fence)>>

\* `[^`]+`
backendInlineRe == <<Lit(Backtick), Plus(<<NotIn({Backtick})>>), Lit(Backtick)>>

\* text.replace(re, match => `{{CODE_BLOCK_${blockIndex++}}}`) for the matches ms
\* of re in text, blockIndex starting at base.
MarkBlocks(text, ms, base) ==
    join([ k \in 1..Len(ms) |->
             SubSeq(text, IF k = 1 THEN 1 ELSE ms[k - 1].e, ms[k].st - 1)
             \o Placeholder(base + k - 1) ], "")
    \o SliceFrom(text, IF ms = <<>> THEN 1 ELSE ms[Len(ms)].e)

MatchedTexts(text, ms) == [ k \in 1..Len(ms) |-> Matched(text, ms[k]) ]

InlineMarked(processedText, fenced, ms) ==
    [text |-> MarkBlocks(processedText, ms, Len(fenced)),
     codeBlocks |-> fenced \o MatchedTexts(processedText, ms)]

FencedMarked(processedText, fenced) ==
    InlineMarked(processedText, fenced, matchAll(backendInlineRe, 0, processedText))

FencedFound(text, ms) == FencedMarked(MarkBlocks(text, ms, 0), MatchedTexts(text, ms))

extractCodeBlocks(text) ==
    IF Len(text) < 0 THEN [text |-> text, codeBlocks |-> <<>>]
    ELSE FencedFound(text, matchAll(backendFencedRe, 0, text))

\* The replacement text of s.replace(pattern, repl) for a string pattern: $$, $&,
\* $` and $' in repl stand for "$", the match, the text before it and the text
\* after it.
RECURSIVE Substitution(_, _, _, _, _)
Substitution(repl, p, matched, before, after) ==
    IF p > Len(repl) THEN ""
    ELSE IF CharAt(repl, p) = "$" /\ CharAt(repl, p + 1) \in {"$", "&", Backtick, "'"}
         THEN (CASE CharAt(repl, p + 1) = "$" -> "$"
                 [] CharAt(repl, p + 1) = "&" -> matched
                 [] CharAt(repl, p + 1) = Backtick -> before
                 [] OTHER -> after)
              \o Substitution(repl, p + 2, matched, before, after)
         ELSE CharAt(repl, p) \o Substitution(repl, p + 1, matched, before, after)

\* s.replace(lit, repl) for strings lit and repl: the first occurrence only.
ReplaceLiteralAt(s, lit, repl, p) ==
    IF p = 0 THEN s
    ELSE SubSeq(s, 1, p - 1)
         \o Substitution(repl, 1, lit, SubSeq(s, 1, p - 1), SliceFrom(s, p + Len(lit)))
         \o SliceFrom(s, p + Len(lit))

ReplaceLiteral(s, lit, repl) == ReplaceLiteralAt(s, lit, repl, IndexOf(s, lit))

RECURSIVE RestoreFrom(_, _, _)
RestoreFrom(text, codeBlocks, k) ==
    IF Len(text) < 0 \/ k > Len(codeBlocks) THEN text
    ELSE RestoreFrom(ReplaceLiteral(text, Placeholder(k - 1), codeBlocks[k]), codeBlocks, k + 1)

restoreCodeBlocks(text, codeBlocks) == RestoreFrom(text, codeBlocks, 1)

MinDedupeLength == 10

\* A line is kept when its trimmed lower-case form is shorter than 10 characters
\* or was not seen on an earlier line.
KeptLines(ls, forms) ==
    SelectSeq([ k \in 1..Len(ls) |->
                  IF Len(forms[k]) < MinDedupeLength \/ \A j \in 1..(k - 1) : forms[j] # forms[k]
                  THEN <<ls[k]>> ELSE <<>> ],
              LAMBDA x : x # <<>>)

DedupeLines(ls) ==
    LET kept == KeptLines(ls, [ k \in 1..Len(ls) |-> toLowerCase(trim(ls[k])) ])
    IN [ k \in 1..Len(kept) |-> kept[k][1] ]

dedupeBlocks(text) == IF Len(text) < 0 THEN text ELSE join(DedupeLines(split(text)), "\n")

\* [^.!?\n]+
Clause == Plus(<<NotIn(Stops \cup {"\n"})>>)

stackPatterns == <<
    <<LitI("using"), Gap,
      Alt(<< <<LitI("react")>>, <<LitI("vue")>>, <<LitI("angular")>>, <<LitI("svelte")>>,
             <<LitI("next"), Opt(<<Lit(".")>>), LitI("js")>>,
             <<LitI("nuxt")>>, <<LitI("gatsby")>> >>)>>,
    Bounded(<<"typescript", "javascript", "python", "java", "c++", "rust", "go", "ruby">>),
    <<WordB, Alt(<< <<LitI("node"), Opt(<<Lit(".")>>), LitI("js")>>,
                    <<LitI("deno")>>, <<LitI("bun")>> >>), WordB>>,
    Bounded(<<"mongodb", "postgresql", "mysql", "sqlite", "dynamodb", "redis">>),
    Bounded(<<"aws", "gcp", "azure", "vercel", "netlify">>),
    Bounded(<<"docker", "kubernetes", "k8s">>)
>>

Verbs == WordsI(<<"be", "have", "include", "support">>)

reqPatterns == <<
    <<LitI("must"), Gap, Verbs, Gap, Grp(1, <<Clause>>)>>,
    <<LitI("should"), Gap, Verbs, Gap, Grp(1, <<Clause>>)>>,
    <<LitI("need"), Opt(<<LitI("s")>>), Gap, LitI("to"), Gap, Grp(1, <<Clause>>)>>,
    <<LitI("require"), Opt(<<In({"s", "d", "S", "D"})>>), Gap, Grp(1, <<Clause>>)>>
>>

constraintPatterns == <<
    <<LitI("without"), Gap, Grp(1, <<Clause>>)>>,
    <<LitI("can"), Opt(<<Lit("'")>>), LitI("t"), Gap, LitI("use"), Gap, Grp(1, <<Clause>>)>>,
    <<LitI("no"), Gap, Grp(1, <<Clause>>)>>,
    <<LitI("avoid"), Gap, Grp(1, <<Clause>>)>>
>>

Has(xs, x) == \E k \in 1..Len(xs) : xs[k] = x

\* matches.forEach(m => { if (!stack.includes(m.toLowerCase())) stack.push(m) })
RECURSIVE PushStack(_, _, _)
PushStack(stack, ms, k) ==
    IF k > Len(ms) THEN stack
    ELSE PushStack(IF Has(stack, toLowerCase(ms[k])) THEN stack ELSE Append(stack, ms[k]),
                   ms, k + 1)

RECURSIVE StackFrom(_, _, _, _)
StackFrom(stack, patterns, k, text) ==
    IF Len(stack) < 0 \/ k > Len(patterns) THEN stack
    ELSE StackFrom(PushStack(stack, MatchedTexts(text, matchAll(patterns[k], 0, text)), 1),
                   patterns, k + 1, text)

\* The captured clauses, trimmed, of more than min and fewer than max characters,
\* each once.
RECURSIVE PushClauses(_, _, _, _, _)
PushClauses(found, clauses, k, min, max) ==
    IF k > Len(clauses) THEN found
    ELSE PushClauses(IF Len(clauses[k]) > min /\ Len(clauses[k]) < max
                        /\ ~Has(found, clauses[k])
                     THEN Append(found, clauses[k]) ELSE found,
                     clauses, k + 1, min, max)

Clauses(text, ms) == [ k \in 1..Len(ms) |-> trim(Cap(text, ms[k], 1)) ]

RECURSIVE ClausesFrom(_, _, _, _, _, _)
ClausesFrom(found, patterns, k, text, min, max) ==
    IF Len(found) < 0 \/ k > Len(patterns) THEN found
    ELSE ClausesFrom(PushClauses(found, Clauses(text, matchAll(patterns[k], 1, text)), 1,
                                 min, max),
                     patterns, k + 1, text, min, max)

MinRequirement == 5

MaxRequirement == 100

MinConstraint == 3

MaxConstraint == 50

extractConstraints(text) ==
    [constraints |-> ClausesFrom(<<>>, constraintPatterns, 1, text,
                                 MinConstraint, MaxConstraint),
     stack |-> StackFrom(<<>>, stackPatterns, 1, text),
     requirements |-> ClausesFrom(<<>>, reqPatterns, 1, text,
                                  MinRequirement, MaxRequirement)]

IncludesAny(s, lits) == \E lit \in lits : Includes(s, lit)

\* The scan with the first two buckets in the other order.
IntentExplainFirst(lowerText) ==
    IF IncludesAny(lowerText, {"explain", "how does", "what is", "why does", "understand"})
    THEN "explain"
    ELSE IF IncludesAny(lowerText, {"error", "bug", "fix", "not working", "doesn't work",
                                    "broken"})
    THEN "fix"
    ELSE IF IncludesAny(lowerText, {"create", "build", "implement", "make", "add", "write"})
    THEN "implement"
    ELSE IF IncludesAny(lowerText, {"review", "optimize", "improve", "refactor", "better"})
    THEN "optimize"
    ELSE IF IncludesAny(lowerText, {"debug", "console.log", "trace"})
    THEN "debug"
    ELSE "general"

IntentOfLower(lowerText) ==
    IF IncludesAny(lowerText, {"error", "bug", "fix", "not working", "doesn't work", "broken"})
    THEN "fix"
    ELSE IF IncludesAny(lowerText, {"explain", "how does", "what is", "why does",
                                    "understand"})
    THEN "explain"
    ELSE IF IncludesAny(lowerText, {"create", "build", "implement", "make", "add", "write"})
    THEN "implement"
    ELSE IF IncludesAny(lowerText, {"review", "optimize", "improve", "refactor", "better"})
    THEN "optimize"
    ELSE IF IncludesAny(lowerText, {"debug", "console.log", "trace"})
    THEN "debug"
    ELSE "general"

backendDetectIntent(text) == IntentOfLower(toLowerCase(text))

intentLabels(intent) ==
    CASE intent = "fix" -> "**Bug Fix Request**"
      [] intent = "explain" -> "**Explanation Request**"
      [] intent = "implement" -> "**Implementation Request**"
      [] intent = "optimize" -> "**Optimization Request**"
      [] intent = "debug" -> "**Debug Request**"
      [] OTHER -> "**Request**"

Bullets(xs) == [ k \in 1..Len(xs) |-> "- " \o xs[k] ]

formatOptimizedPrompt(cleanedText, intent, metadata) ==
    join(<<intentLabels(intent), "", cleanedText>>
         \o (IF Len(metadata.stack) > 0
             THEN <<"", "**Stack**: " \o join(metadata.stack, ", ")>> ELSE <<>>)
         \o (IF Len(metadata.requirements) > 0
             THEN <<"", "**Requirements**:">> \o Bullets(metadata.requirements) ELSE <<>>)
         \o (IF Len(metadata.constraints) > 0
             THEN <<"", "**Constraints**:">> \o Bullets(metadata.constraints) ELSE <<>>),
         "\n")

BackendResult(original, optimized, originalTokens, optimizedTokens, intent) ==
    [original |-> original, optimized |-> optimized, originalTokens |-> originalTokens,
     optimizedTokens |-> optimizedTokens,
     savings |-> SavingsOf(originalTokens, optimizedTokens), intent |-> intent]

Formatted(original, optimized, intent) ==
    IF Len(optimized) < 0 THEN EmptyResult(original)
    ELSE BackendResult(original, optimized, backendEstimateTokens(original),
                  backendEstimateTokens(optimized), intent)

\* Steps 3, 4, 7 and 8 of optimizePrompt.
Cleaned(extracted) ==
    IF Len(extracted.text) < 0 THEN ""
    ELSE normalize(restoreCodeBlocks(dedupeBlocks(removeFluff(extracted.text)),
                                extracted.codeBlocks))

WithIntent(original, cleanedText, intent) ==
    IF Len(cleanedText) < 0 THEN EmptyResult(original)
    ELSE Formatted(original,
              formatOptimizedPrompt(cleanedText, intent, extractConstraints(original)),
              intent)

backendOptimizePrompt(text) ==
    WithIntent(text, Cleaned(extractCodeBlocks(normalize(text))), backendDetectIntent(text))

\* ---------------------------------------------------------------------
\* What outlives a call
\* ---------------------------------------------------------------------

\* LocalOptimizer has no fields, and the sets, flags and regular expressions of
\* its methods are created by each call. The server module keeps two lists of
\* regular expressions with the g flag, FILLER_PATTERNS and EMOTIONAL_FILLERS:
\* the lastIndex of each is the only state that a call can leave to the next.
ModulePatterns == Removals(FILLER_PATTERNS) \o Removals(EMOTIONAL_FILLERS)

\* The lastIndex of each pattern when the module has been loaded.
ModuleLoaded == [ k \in 1..Len(ModulePatterns) |-> 0 ]

\* A replacement done as one re.exec(text) on the shared pattern: the search
\* starts at lastIndex and leaves lastIndex at the end of the match.
ReplaceFromLastIndex(step, last, text) ==
    LET m == Exec(step.re, step.ng, text, last + 1)
    IN [text |-> SpliceFirst(step.repl, text, m),
        lastIndex |-> IF m.st = 0 THEN 0 ELSE m.e - 1]

\* text.replace(pattern, '') for a shared pattern with the g flag and lastIndex
\* = last: replace sets lastIndex to 0 before its first search, and the search
\* that finds nothing more, which ends it, sets lastIndex to 0 again.
ReplaceShared(step, last, text) ==
    [text |-> ReplaceAll(step.re, step.ng, step.repl, text), lastIndex |-> 0]

\* The two forEach loops of removeFluff on the patterns lo..hi: acc is the text
\* and the lastIndex of each pattern.
RECURSIVE FluffRange(_, _, _)
FluffRange(lo, hi, acc) ==
    IF Len(acc.text) < 0 \/ lo > hi THEN acc
    ELSE IF lo = hi
         THEN LET r == ReplaceShared(ModulePatterns[lo], acc.lastIndex[lo], acc.text)
              IN [text |-> r.text, lastIndex |-> [acc.lastIndex EXCEPT ![lo] = r.lastIndex]]
    ELSE FluffRange((lo + hi) \div 2 + 1, hi, FluffRange(lo, (lo + hi) \div 2, acc))

\* removeFluff(text) in a module whose patterns have the lastIndex values last:
\* the text returned and the lastIndex values left.
removeFluffShared(last, text) ==
    LET r == FluffRange(1, Len(ModulePatterns), [text |-> text, lastIndex |-> last])
    IN IF Len(r.text) < 0 THEN r
       ELSE [text |-> trim(ReplaceEach(fluffCleanupSteps, 1, r.text)),
             lastIndex |-> r.lastIndex]

CleanedShared(extracted, fluff) ==
    IF Len(fluff.text) < 0 THEN ""
    ELSE normalize(restoreCodeBlocks(dedupeBlocks(fluff.text), extracted.codeBlocks))

ExtractedShared(last, extracted) ==
    IF Len(extracted.text) < 0 THEN [text |-> "", lastIndex |-> last]
    ELSE removeFluffShared(last, extracted.text)

\* optimizePrompt(text) of the server in a module whose patterns have the
\* lastIndex values last: the value returned and the lastIndex values left.
optimizePromptShared(last, text) ==
    LET extracted == extractCodeBlocks(normalize(text))
        fluff == ExtractedShared(last, extracted)
    IN [value |-> WithIntent(text, CleanedShared(extracted, fluff), backendDetectIntent(text)),
        lastIndex |-> fluff.lastIndex]

\* ---------------------------------------------------------------------
\* State
\* ---------------------------------------------------------------------

VARIABLES
    pc,       \* where the operation under study stands
    input,    \* the text handed to the operation
    result,   \* what each completed call returned, by the name of the call
    lines,    \* the lines of the log read so far (optimizeErrorLog)
    i,        \* the number of lines the scan has processed
    scan,     \* the locals of optimizeErrorLog
    calls,    \* the calls completed on one LocalOptimizer and one server module
    lastIndex \* the lastIndex of each pattern of the server module

vars == <<pc, input, result, lines, i, scan, calls, lastIndex>>

\* The call named op has returned.
Returned(op) == op \in DOMAIN result

\* All texts of at most n characters over the alphabet A.
RECURSIVE TextsUpTo(_, _)
TextsUpTo(A, n) ==
    IF n = 0 THEN {""}
    ELSE LET shorter == TextsUpTo(A, n - 1)
         IN shorter \cup { t \o c : t \in shorter, c \in A }

\* The scan is not running.
NoScan == lines = <<>> /\ i = 0 /\ scan = ScanInit

\* No call has been made since the module was loaded.
NoCalls == calls = <<>> /\ lastIndex = ModuleLoaded

\* ---------------------------------------------------------------------
\* Specification SpecEstimate: the three token estimators on the same text
\* ---------------------------------------------------------------------

MaxTextLen == 4

EstimateAlphabet == {"a", " ", "\t", "\n", Backtick}

\* 400 characters without code
LongText == repeat("abcd", 100)

\* 400 characters with an inline code span
LongCodeText == Backtick \o "x" \o Backtick \o repeat("abcd", 99) \o "a"

EstimateInputs == TextsUpTo(EstimateAlphabet, MaxTextLen) \cup {LongText, LongCodeText}

InitEstimate ==
    /\ pc = "estimate"
    /\ input \in EstimateInputs
    /\ result = <<>>
    /\ NoScan
    /\ NoCalls

LocalEstimate ==
    /\ pc = "estimate"
    /\ ~Returned("local")
    /\ result' = result @@ ("local" :> estimateTokens(input))
    /\ UNCHANGED <<pc, input, lines, i, scan, calls, lastIndex>>

BackendEstimate ==
    /\ pc = "estimate"
    /\ ~Returned("backend")
    /\ result' = result @@ ("backend" :> backendEstimateTokens(input))
    /\ UNCHANGED <<pc, input, lines, i, scan, calls, lastIndex>>

WebviewEstimate ==
    /\ pc = "estimate"
    /\ ~Returned("webview")
    /\ result' = result @@ ("webview" :> webviewEstimateTokens(input))
    /\ UNCHANGED <<pc, input, lines, i, scan, calls, lastIndex>>

NextEstimate == LocalEstimate \/ BackendEstimate \/ WebviewEstimate

SpecEstimate == InitEstimate /\ [][NextEstimate]_vars

\* The text holds a fenced-block marker or a span between two backticks.
HasCodeSpan(text) ==
    \/ \E p \in 1..(Len(text) - 2) : SubSeq(text, p, p + 2) = Fence
    \/ \E p, q \in 1..Len(text) :
          /\ p + 1 < q
          /\ SubSeq(text, p, p) = Backtick
          /\ SubSeq(text, q, q) = Backtick
          /\ \A r \in (p + 1)..(q - 1) : SubSeq(text, r, r) # Backtick

\* r is the least integer with r * den >= num.
IsCeil(r, num, den) == r * den >= num /\ (r - 1) * den < num

WhiteOnly(text) == text # "" /\ trim(text) = ""

\* C8: for every non-empty text of length n, LocalOptimizer.estimateTokens
\* returns ceil(n / 3.5) when the text holds a fenced-block marker or a
\* backtick-delimited span, and ceil(n / 4) otherwise; 400 characters without
\* code give 100.
C8_TokenFormula ==
    (Returned("local") /\ input # "") =>
        /\ IF HasCodeSpan(input)
           THEN IsCeil(result["local"], 2 * Len(input), 7)
           ELSE IsCeil(result["local"], Len(input), 4)
        /\ (input = LongText => result["local"] = 100)

C8_Witness ==
    /\ Returned("local")
    /\ input = LongCodeText
    /\ result["local"] = 115

\* C9 as stated: estimateTokens (local and backend) returns 0 for the empty
\* string and for every text of nothing but white space.
C9_ZeroForBlank ==
    (trim(input) = "") =>
        /\ (Returned("local") => result["local"] = 0)
        /\ (Returned("backend") => result["backend"] = 0)

\* C9 amended: estimateTokens (local and backend) returns 0 for the empty
\* string only; a text of n >= 1 white-space characters is counted like any
\* other text without code and gives ceil(n / 4).
C9_ZeroForEmptyOnly ==
    /\ (input = "" =>
          /\ (Returned("local") => result["local"] = 0)
          /\ (Returned("backend") => result["backend"] = 0))
    /\ (WhiteOnly(input) =>
          /\ (Returned("local") => IsCeil(result["local"], Len(input), 4))
          /\ (Returned("backend") => IsCeil(result["backend"], Len(input), 4)))

C9_Witness ==
    /\ WhiteOnly(input)
    /\ Returned("local") /\ Returned("backend")
    /\ result["local"] = 1 /\ result["backend"] = 1

\* C10: the three token estimators (extension, backend handler, webview)
\* return the same value for every text, a text with a single unpaired
\* backtick included.
C10_EstimatorsAgree ==
    (Returned("local") /\ Returned("backend") /\ Returned("webview")) =>
        /\ result["local"] = result["backend"]
        /\ result["backend"] = result["webview"]

\* ---------------------------------------------------------------------
\* Specification SpecClassify: isErrorLog on texts of a few lines
\* ---------------------------------------------------------------------

MaxClassifyLines == 2

AtLine == "at foo (bar.js:1:1)"

TracebackLine == "Traceback (most recent call last):"

ClassifyLines ==
    { AtLine, TracebackLine, "please fix my code", "npm ERR! code ELIFECYCLE",
      "ValueError: x is None", "panic: boom", "    raise ValueError" }

\* All sequences of 1..n elements of S.
RECURSIVE SeqsUpTo(_, _)
SeqsUpTo(S, n) ==
    IF n = 0 THEN {}
    ELSE LET shorter == SeqsUpTo(S, n - 1)
         IN { <<x>> : x \in S } \cup shorter \cup { Append(q, x) : q \in shorter, x \in S }

ClassifyInputs == { join(q, "\n") : q \in SeqsUpTo(ClassifyLines, MaxClassifyLines) }

InitClassify ==
    /\ pc = "classify"
    /\ input \in ClassifyInputs
    /\ result = <<>>
    /\ NoScan
    /\ NoCalls

Classify ==
    /\ pc = "classify"
    /\ ~Returned("isErrorLog")
    /\ result' = result @@ ("isErrorLog" :> isErrorLog(input))
    /\ UNCHANGED <<pc, input, lines, i, scan, calls, lastIndex>>

NextClassify == Classify

SpecClassify == InitClassify /\ [][NextClassify]_vars

\* The indicators that match somewhere in the text.
Matching(text) ==
    LET patterns == indicators
    IN { k \in 1..Len(patterns) : Test(patterns[k], text) }

\* C6: isErrorLog(text) is true if and only if at least 2 of the fixed
\* signature patterns match somewhere in the text; with 0 or 1 matching
\* patterns it is false.
C6_Threshold ==
    Returned("isErrorLog") =>
        LET hits == Matching(input)
        IN result["isErrorLog"] <=> (\E j \in hits : \E k \in hits : j # k)

C6_Witness ==
    /\ Returned("isErrorLog")
    /\ Cardinality(Matching(input)) = 1
    /\ result["isErrorLog"] = FALSE

\* C7 as stated: the single line "at foo (bar.js:1:1)" is classified as not
\* an error log.
C7_AtLineAloneIsNotLog ==
    (Returned("isErrorLog") /\ input = AtLine) => result["isErrorLog"] = FALSE

\* C7 amended: the single line "at foo (bar.js:1:1)" matches two of the
\* signature patterns (the "at name (file:line:col)" frame and the line that
\* begins with "at ") and so is classified as an error log on its own; the
\* line "Traceback (most recent call last):" alone matches one pattern and is
\* classified as not an error log; the two lines together are an error log.
C7_AtLineCountsTwice ==
    Returned("isErrorLog") =>
        /\ (input = AtLine =>
              Matching(input) = {1, 2} /\ result["isErrorLog"] = TRUE)
        /\ (input = TracebackLine =>
              Cardinality(Matching(input)) = 1 /\ result["isErrorLog"] = FALSE)
        /\ (input = AtLine \o "\n" \o TracebackLine => result["isErrorLog"] = TRUE)

C7_Witness ==
    /\ Returned("isErrorLog")
    /\ input = AtLine
    /\ result["isErrorLog"] = TRUE

\* ---------------------------------------------------------------------
\* Specification SpecScan: optimizeErrorLog, line by line, on logs made of
\* one error block (a declaration and a choice of the frames of its trace)
\* that occurs one or more times
\* ---------------------------------------------------------------------

MaxFrameLines == 5

MaxRepeats == 3

Families == {"js", "python", "go"}

\* The exception declaration of each family.
Declaration(family) ==
    CASE family = "js" -> "TypeError: x is not a function"
      [] family = "python" -> "ValueError: x is None"
      [] family = "go" -> "panic: boom"

\* The frames of each family's trace, each frame the lines it takes in the log.
TraceFrames(family) ==
    CASE family = "js" ->
           << <<"    at a (/app/a.js:1:1)">>,
              <<"at b (/app/b.js:2:2)">>,
              <<"\tat c (/app/c.js:3:3)">>,
              <<"        at d (/app/d.js:4:4)">>,
              <<"    at Module._compile (node:internal/modules/cjs/loader:1)">>,
              <<"    at e (/app/e.js:5:5)">>,
              <<"    at f (/app/f.js:6:6)">> >>
      [] family = "python" ->
           << <<"  File \"/app/a.py\", line 1, in a", "    b()">>,
              <<"  File \"/app/b.py\", line 2, in b", "    c()">>,
              <<"  File \"/usr/lib/python3/site-packages/starlette/x.py\", line 9, in s">>,
              <<"  File \"/app/c.py\", line 3, in c", "    d()">>,
              <<"  File \"/app/d.py\", line 4, in d", "    e()">>,
              <<"  File \"/app/e.py\", line 5, in e">>,
              <<"  File \"/app/f.py\", line 6, in f">> >>
      [] family = "go" ->
           << <<"runtime.gopanic(0x1)", "\t/usr/local/go/src/runtime/panic.go:884 +0x2">>,
              <<"runtime.panicmem()", "\t/usr/local/go/src/runtime/panic.go:260 +0x3">>,
              <<"runtime.sigpanic()", "\t/usr/local/go/src/runtime/signal.go:8 +0x4">>,
              <<"main.load(0x1)", "\t/app/main.go:10 +0x1d">>,
              <<"main.run()", "\t/app/main.go:20 +0x2">>,
              <<"main.main()", "\t/app/main.go:30 +0x3">>,
              <<"main.init()", "\t/app/main.go:40 +0x4">> >>

\* The lines of the frames picked (a set of indexes), in the order of the trace.
RECURSIVE PickedLines(_, _, _)
PickedLines(frames, picks, k) ==
    IF k > Len(frames) THEN <<>>
    ELSE (IF k \in picks THEN frames[k] ELSE <<>>) \o PickedLines(frames, picks, k + 1)

\* One occurrence of the error: the declaration with the picked frames of its trace.
ErrorBlock(family, picks) ==
    LET frames == PickedLines(TraceFrames(family), picks, 1)
    IN CASE family = "js" -> <<Declaration(family)>> \o frames
         [] family = "python" ->
              <<"Traceback (most recent call last):">> \o frames \o <<Declaration(family)>>
         [] family = "go" ->
              <<Declaration(family), "", "goroutine 1 [running]:">> \o frames

RECURSIVE Repeated(_, _)
Repeated(block, n) == IF n = 0 THEN <<>> ELSE block \o Repeated(block, n - 1)

\* The log in which the error block occurs n times.
LogOf(family, picks, n) == join(Repeated(ErrorBlock(family, picks), n), "\n")

\* The banner block that Spring Boot prints when the application cannot start.
Banner ==
    "***************************\nAPPLICATION FAILED TO START\n***************************\n\n"
    \o "Description:\n\nPort 8080 was already in use."

\* The banner block alone, and followed by a dated line and a traceback.
BannerLogs == {Banner, Banner \o "\n2024-01-01 retry\n" \o LogOf("python", {1}, 1)}

\* A failed Jest test: the test name, the error, and a trace of two frames
\* indented by six blanks, one of the test file and one of the Node loader, in
\* both orders.
JestFrames ==
    <<"      at Object.<anonymous> (src/a.test.js:5:1)",
      "      at Module._compile (node:internal/modules/cjs/loader:1)">>

JestLogs ==
    { "  ● suite > adds\n\n    TypeError: x is not a function\n\n"
         \o JestFrames[k] \o "\n" \o JestFrames[3 - k] : k \in 1..2 }

\* Logs in which a declaration comes a second time, followed by frames: a JS
\* error, a Java exception with a cause, a Python exception after its traceback.
DuplicateLogs ==
    { join(<<"Error: boom",
             "    at a (/app/a.js:1:1)",
             "Error: boom",
             "    at b (/app/b.js:2:2)",
             "  at c (/app/c.js:3:3)">>, "\n"),
      join(<<"java.lang.IllegalStateException: boom",
             "\tat com.app.A.run(A.java:1)",
             "Caused by: java.io.IOException: disk",
             "\tat com.app.B.io(B.java:2)",
             "Caused by: java.io.IOException: disk",
             "\tat com.app.C.io(C.java:3)",
             "\tat com.app.D.io(D.java:4)">>, "\n"),
      join(<<"Traceback (most recent call last):",
             "  File \"/app/a.py\", line 1, in a",
             "    b()",
             "ValueError: x is None",
             "ValueError: x is None",
             "  File \"/app/b.py\", line 2, in b",
             "    c()">>, "\n") }

\* Logs in which a traceback or a panic follows a declaration seen twice.
OpenerLogs ==
    { join(<<"ConnectError: dial tcp refused",
             "ConnectError: dial tcp refused",
             "panic: boom",
             "",
             "goroutine 1 [running]:",
             "main.load(0x1)",
             "\t/app/main.go:10 +0x1d">>, "\n"),
      join(<<"ValueError: x is None",
             "ValueError: x is None",
             "Traceback (most recent call last):",
             "  File \"/app/b.py\", line 2, in b",
             "    c()",
             "KeyError: 'k'">>, "\n") }

\* Logs with code context: a build error with numbered source lines and their
\* pointer, and an uncaught exception as Node prints it (the source line and a
\* pointer, then the error and its trace).
CodeContextLogs ==
    { join(<<"ERROR in ./src/a.js",
             "  11 | const x = 1",
             "  12 | foo(x",
             "     |     ^",
             "SyntaxError: missing ) after argument list",
             "    at parse (/app/build.js:7:3)">>, "\n"),
      join(<<"/app/a.js:5",
             "    foo.bar();",
             "        ^",
             "",
             "TypeError: foo.bar is not a function",
             "    at a (/app/a.js:5:9)">>, "\n") }

\* Logs with noise lines while an error is open: uvicorn and SQLAlchemy INFO
\* lines (two of them with words that a later rule looks for), blank lines and
\* dash separators.
NoiseLogs ==
    { join(<<"INFO:     Started server process [19]",
             "Traceback (most recent call last):",
             "  File \"/app/a.py\", line 1, in a",
             "    b()",
             "",
             "INFO:     Can't resolve worker",
             "-----",
             "KeyError: 'k'">>, "\n"),
      join(<<"FAIL src/a.test.js",
             "INFO:     retrying worker",
             "------",
             "    at a (/app/a.js:1:1)",
             "2026-01-10 14:12:44,892 INFO sqlalchemy.engine.Engine SELECT 1">>, "\n") }

\* A banner block with an exception, its frame and a line of dashes inside,
\* ended by a separator; an error with its frame follows.
BannerBlockLogs ==
    { join(<<"***************************",
             "APPLICATION FAILED TO START",
             "***************************",
             "",
             "java.net.BindException: Address already in use",
             "\tat com.app.A.run(A.java:1)",
             "-----",
             "----- end of report",
             "Error: boom",
             "    at a (/app/a.js:1:1)">>, "\n") }

\* Python ERROR: lines with a message longer and shorter than the 50 characters
\* of the signature, then a JS error with its frame.
SignatureLogs ==
    { join(<<"ERROR:    could not connect to the server at postgres on port 5432: refused",
             "ERROR:    Application shutdown failed. Exiting.",
             "Error: boom",
             "    at a (/app/a.js:1:1)">>, "\n") }

\* Logs in which a new error follows a declaration seen twice: a failed test
\* file with its frame after a JS error, and another exception with its frames
\* after a Java exception.
SuppressionLogs ==
    { join(<<"Error: boom",
             "    at a (/app/a.js:1:1)",
             "Error: boom",
             "FAIL src/a.test.js",
             "    at b (/app/b.js:2:2)">>, "\n"),
      join(<<"java.lang.IllegalStateException: boom",
             "java.lang.IllegalStateException: boom",
             "java.io.IOException: disk",
             "\tat com.app.B.io(B.java:2)",
             "\tat com.app.C.io(C.java:3)">>, "\n") }

\* Logs in which a declaration comes a second time while the block of a failed
\* test file is open: a JS error, and an exception.
PendingLogs ==
    { join(<<"Error: boom",
             "    at a (/app/a.js:1:1)",
             "FAIL src/a.test.js",
             "Error: boom",
             "    at b (/app/b.js:2:2)">>, "\n"),
      join(<<"ValueError: x is None",
             "FAIL src/b.test.js",
             "ValueError: x is None",
             "    at c (/app/c.js:3:3)">>, "\n") }

\* A traceback in which a frame of a library follows a frame of the
\* application, each with its source line.
PythonSourceLogs ==
    { join(<<"Traceback (most recent call last):",
             "  File \"/app/a.py\", line 1, in a",
             "    b()",
             "  File \"/usr/lib/python3/site-packages/starlette/x.py\", line 9, in s",
             "    raise exc",
             "KeyError: 'k'">>, "\n") }

\* A GORM query logged between a failed test file and its frame.
GormLogs ==
    { join(<<"FAIL src/a.test.js",
             "gorm: [2024-01-01T00:00:00Z] SELECT * FROM users",
             "    at a (/app/a.js:1:1)",
             "Error: boom">>, "\n") }

ScanInputs ==
    { LogOf(family, picks, n) :
        family \in Families, picks \in SUBSET (1..MaxFrameLines), n \in 1..MaxRepeats }
    \cup BannerLogs \cup JestLogs \cup DuplicateLogs \cup OpenerLogs \cup CodeContextLogs
    \cup NoiseLogs \cup BannerBlockLogs \cup SignatureLogs
    \cup SuppressionLogs \cup PendingLogs \cup PythonSourceLogs
    \cup GormLogs

\* The logs with a single occurrence of the error.
SingleErrorInputs ==
    { LogOf(family, picks, 1) : family \in Families, picks \in SUBSET (1..MaxFrameLines) }

InitScan ==
    /\ pc = "scan"
    /\ input \in ScanInputs
    /\ result = <<>>
    /\ lines = split(input)
    /\ i = 0
    /\ scan = ScanInit
    /\ NoCalls

\* One iteration of the loop of optimizeErrorLog.
ScanLine ==
    /\ pc = "scan"
    /\ i < Len(lines)
    /\ scan' = ProcessLine(scan, lines[i + 1], IF i + 2 <= Len(lines) THEN lines[i + 2] ELSE "")
    /\ i' = i + 1
    /\ UNCHANGED <<pc, input, result, lines, calls, lastIndex>>

\* The end of optimizeErrorLog, after the loop.
FinishScan ==
    /\ pc = "scan"
    /\ i = Len(lines)
    /\ scan' = flushCodeContext(flushError(scan))
    /\ result' = result @@ ("optimizeErrorLog" :> Assemble(scan, input))
    /\ pc' = "done"
    /\ UNCHANGED <<input, lines, i, calls, lastIndex>>

NextScan == ScanLine \/ FinishScan

SpecScan == InitScan /\ [][NextScan]_vars

\* The number of lines of a text that satisfy P.
CountLines(text, P(_)) == Len(SelectSeq(split(text), P))

\* The family whose declaration the log holds.
FamilyOf(text) == CHOOSE family \in Families : Includes(text, Declaration(family))

\* C1: for a log in which the same exception declaration occurs n >= 1 times,
\* each with its own traceback, the output of optimizeErrorLog holds that
\* declaration exactly once: not zero times and not more than once.
C1_DeclaredExactlyOnce ==
    Returned("optimizeErrorLog") =>
        CountLines(result["optimizeErrorLog"],
                   LAMBDA l : Includes(l, Declaration(FamilyOf(input)))) = 1

\* A frame line of a condensed block of the family: an "at" frame, a Python
\* File frame, or the function line of a Go frame.
IsFrameLine(family, l) ==
    LET t == trim(l)
    IN CASE family = "js" -> StartsWith(t, "at ")
         [] family = "python" -> StartsWith(t, "File \"")
         [] family = "go" -> Len(t) > 2 /\ SliceFrom(t, Len(t) - 1) = "()"

\* C2: for a single error followed by any number of stack-frame lines, the
\* block emitted for that error holds at most 3 frame lines.
C2_AtMostThreeFrames ==
    (input \in SingleErrorInputs) =>
        LET IsFrame(l) == IsFrameLine(FamilyOf(input), l)
        IN /\ \A k \in 1..Len(scan.sections) : CountLines(scan.sections[k], IsFrame) <= 3
           /\ Len(SelectSeq(scan.currentError, IsFrame)) <= 3

\* ---------------------------------------------------------------------
\* The optimizers on prompts and logs: LocalOptimizer.optimize and the
\* server-side optimizePrompt, each applied to an input
\* ---------------------------------------------------------------------

MaxPadding == 1

\* Conversational openers that the rewriters strip.
Openers == {"hey", "i think"}

\* Requests: two whose local rewrite only loses the doubled blanks (one of 20
\* characters rewritten to 19, one of 21 rewritten to 19), one with a stack name
\* and a verbose phrase, one with inline code, one very short.
Requests ==
    {"fix the  login error",
     "fix the   login error",
     "i want to build a login page using react",
     "please help me fix this. explain " \o Backtick \o "x = 1" \o Backtick,
     "hi"}

\* Logs: a JavaScript error with two frames, once and repeated, and a Python
\* traceback, which holds none of the words of detectIntent.
OptimizeLogs == { LogOf("js", {1, 2}, n) : n \in 1..MaxRepeats } \cup {LogOf("python", {1}, 1)}

OptimizeBodies ==
    Requests \cup { o \o " " \o r : o \in Openers, r \in Requests } \cup OptimizeLogs \cup {""}

\* Each body with up to MaxPadding characters of white space around it: blanks
\* before, line ends after.
Paddings == { p \in (0..MaxPadding) \X (0..MaxPadding) : p[1] + p[2] <= MaxPadding }

\* Prompts of several lines: a line of 14 characters twice, the same with
\* another letter case, a line of 6 characters twice.
RepeatedLinePrompts ==
    {"deploy the app\ndeploy the app",
     "Deploy the app\n  deploy the APP  \nthen tell me",
     "run it\nrun it"}

\* Prompts with code: an inline span, a fenced block and a span, a span whose
\* content holds $$ and one that holds $&, a text that holds the token of the
\* first placeholder.
CodePrompts ==
    {"run " \o Backtick \o "npm test" \o Backtick \o " now",
     Fence \o "\nx = 1\n" \o Fence \o " then " \o Backtick \o "y" \o Backtick,
     "echo " \o Backtick \o "a$$b" \o Backtick,
     "sed " \o Backtick \o "s/x/[$&]/" \o Backtick,
     "keep {{CODE_BLOCK_0}} and " \o Backtick \o "x" \o Backtick}

\* Prompts with the keywords of one or two intents, or of none.
IntentPrompts ==
    {"Explain this error", "explain how to build it", "make it better",
     "review and improve it", "trace the flow", "console.log shows nothing",
     "what time is it"}

\* Prompts with metadata: a stack name twice in lower case, twice capitalized,
\* two stack names of different patterns, a requirement twice, two constraints.
MetadataPrompts ==
    {"python api, python client",
     "Python api, Python client",
     "python api using react",
     "it must be very fast. it must be very fast",
     "without a database and avoid global state"}

Prompts == RepeatedLinePrompts \cup CodePrompts \cup IntentPrompts \cup MetadataPrompts

OptimizeInputs ==
    { repeat(" ", p[1]) \o body \o repeat("\n", p[2]) : body \in OptimizeBodies, p \in Paddings }
    \cup Prompts

InitOptimize ==
    /\ pc \in {"optimize", "backendOptimizePrompt"}
    /\ input \in OptimizeInputs
    /\ result = <<>>
    /\ NoScan
    /\ NoCalls

\* optimize returns value after isErrorLog returned isLog and the rewriter named
\* route returned rewritten.
ReturnRewritten(route, isLog, rewritten, value) ==
    result' = result @@ ("isErrorLog" :> isLog) @@ (route :> rewritten) @@ ("optimize" :> value)

RewriteAs(route, original, isLog, rewritten, intent) ==
    ReturnRewritten(route, isLog, rewritten,
                    Guarded(input, original, Guardrail(original, rewritten), intent))

\* optimize with the intent of a log taken from its words, like that of a prompt.
OptimizeByWords(original, isLog) ==
    IF original = "" THEN result' = result @@ ("optimize" :> EmptyResult(input))
    ELSE IF isLog
    THEN RewriteAs("optimizeErrorLog", original, isLog, optimizeErrorLog(original),
                   detectIntent(original))
    ELSE RewriteAs("optimizePrompt", original, isLog, optimizePrompt(original),
                   detectIntent(original))

\* optimize without the early return for an empty text.
OptimizeUnchecked(original, isLog) ==
    IF isLog
    THEN RewriteAs("optimizeErrorLog", original, isLog, optimizeErrorLog(original), "debug")
    ELSE RewriteAs("optimizePrompt", original, isLog, optimizePrompt(original),
                   detectIntent(original))

OptimizeTrimmed(original, isLog) ==
    IF original = "" THEN result' = result @@ ("optimize" :> EmptyResult(input))
    ELSE IF isLog
    THEN RewriteAs("optimizeErrorLog", original, isLog, optimizeErrorLog(original), "debug")
    ELSE RewriteAs("optimizePrompt", original, isLog, optimizePrompt(original),
                   detectIntent(original))

\* LocalOptimizer.optimize(input)
LocalOptimize ==
    /\ pc = "optimize"
    /\ OptimizeTrimmed(trim(input), isErrorLog(trim(input)))
    /\ pc' = "done"
    /\ UNCHANGED <<input, lines, i, scan, calls, lastIndex>>

\* optimizePrompt(input) of the server
BackendOptimize ==
    /\ pc = "backendOptimizePrompt"
    /\ result' = result @@ ("extractConstraints" :> extractConstraints(input))
                        @@ ("backendOptimizePrompt" :> backendOptimizePrompt(input))
    /\ pc' = "done"
    /\ UNCHANGED <<input, lines, i, scan, calls, lastIndex>>

NextOptimize == LocalOptimize \/ BackendOptimize

SpecOptimize == InitOptimize /\ [][NextOptimize]_vars

\* ---------------------------------------------------------------------
\* Specification SpecCalls: calls one after the other on the same LocalOptimizer
\* and the same server module. A call runs to its end before the next starts
\* (the functions are synchronous), so callers interleave call by call.
\* ---------------------------------------------------------------------

MaxCalls == 2

\* Prompts with filler words at different places, a prompt with a line twice,
\* a prompt without filler, and a traceback.
CallInputs ==
    {"I just need a page",
     "just fix the very slow build",
     "run it\nrun it",
     "what time is it",
     LogOf("python", {1}, 1)}

CallOps == {"optimize", "backendOptimizePrompt"}

InitCalls ==
    /\ pc = "idle"
    /\ input = ""
    /\ result = <<>>
    /\ NoScan
    /\ NoCalls

Completed(op, text, value) == calls' = Append(calls, [op |-> op, input |-> text, value |-> value])

\* new LocalOptimizer().optimize(text), or optimize(text) on an instance used before
CallOptimize ==
    /\ pc = "idle"
    /\ Len(calls) < MaxCalls
    /\ \E text \in CallInputs :
          \E value \in {optimize(text)} :
             /\ input' = text
             /\ Completed("optimize", text, value)
    /\ UNCHANGED <<pc, result, lines, i, scan, lastIndex>>

\* optimizePrompt(text) of the server, in the module as the calls before left it
CallBackend ==
    /\ pc = "idle"
    /\ Len(calls) < MaxCalls
    /\ \E text \in CallInputs :
          \E returned \in {optimizePromptShared(lastIndex, text)} :
             /\ input' = text
             /\ Completed("backendOptimizePrompt", text, returned.value)
             /\ lastIndex' = returned.lastIndex
    /\ UNCHANGED <<pc, result, lines, i, scan>>

NextCalls == CallOptimize \/ CallBackend

SpecCalls == InitCalls /\ [][NextCalls]_vars

\* The rewriter of the facade has returned.
Rewrote == Returned("optimizePrompt") \/ Returned("optimizeErrorLog")

\* What the rewriter returned, before the guardrail.
Rewritten ==
    IF Returned("optimizeErrorLog") THEN result["optimizeErrorLog"] ELSE result["optimizePrompt"]

\* C3 as stated: optimize keeps the rewritten text whenever its length is at
\* most 95% of the length of the (trimmed) original, the boundary of exactly 95%
\* included, and returns the original whenever the rewrite is longer than that.
C3_KeepsUpTo95Percent ==
    (Returned("optimize") /\ Rewrote) =>
        IF 100 * Len(Rewritten) <= KeepPercent * Len(trim(input))
        THEN result["optimize"].optimized = Rewritten
        ELSE result["optimize"].optimized = trim(input)

\* C3 amended: optimize keeps the rewritten text only when its length is
\* strictly below 95% of the length of the trimmed original; at exactly 95% and
\* above it returns the trimmed original.
C3_KeepsBelow95Percent ==
    (Returned("optimize") /\ Rewrote) =>
        IF 100 * Len(Rewritten) < KeepPercent * Len(trim(input))
        THEN result["optimize"].optimized = Rewritten
        ELSE result["optimize"].optimized = trim(input)

C3_Witness ==
    /\ Returned("optimize") /\ Rewrote
    /\ 100 * Len(Rewritten) = KeepPercent * Len(trim(input))
    /\ Rewritten # trim(input)
    /\ result["optimize"].optimized = trim(input)

WhiteOnlyInput == trim(input) = ""

\* C4: for every input s the optimized text returned is never longer than s
\* and never empty unless s is empty or whitespace-only, for the local facade
\* and for the server-side optimizePrompt alike.
C4_NeverLongerNeverEmpty ==
    \A call \in {"optimize", "backendOptimizePrompt"} :
        Returned(call) =>
            /\ Len(result[call].optimized) <= Len(input)
            /\ (result[call].optimized = "" => WhiteOnlyInput)

\* C5: whenever the transformation is discarded (the rewrite is not kept by the
\* guardrail), the result has optimized = original and savings = 0, also for
\* inputs with leading or trailing white space.
C5_FallbackIsOriginal ==
    (Returned("optimize") /\ Rewrote
        /\ 100 * Len(Rewritten) >= KeepPercent * Len(trim(input))) =>
        /\ result["optimize"].optimized = result["optimize"].original
        /\ result["optimize"].savings = 0

\* The number of places where lit occurs in s.
Occurrences(s, lit) ==
    Cardinality({ p \in 1..(Len(s) - Len(lit) + 1) : SubSeq(s, p, p + Len(lit) - 1) = lit })

\* The lines of the input, trimmed and lower-cased, that occur on two lines or more.
RepeatedLines ==
    LET forms == [ k \in DOMAIN split(input) |-> toLowerCase(trim(split(input)[k])) ]
    IN { forms[k] : k \in { k \in DOMAIN forms : \E j \in DOMAIN forms : j # k /\ forms[j] = forms[k] } }

\* C11: when a prompt of several lines holds two identical lines (compared
\* trimmed and lower-cased) of at least 10 characters, the optimized text of the
\* server-side optimizePrompt holds the text of that line once; two identical
\* lines of fewer than 10 characters are both kept.
C11_RepeatedLineOnce ==
    Returned("backendOptimizePrompt") =>
        \A l \in RepeatedLines \ {""} :
            IF Len(l) >= MinDedupeLength
            THEN Occurrences(toLowerCase(result["backendOptimizePrompt"].optimized), l) = 1
            ELSE Occurrences(toLowerCase(result["backendOptimizePrompt"].optimized), l) >= 2

\* What extractCodeBlocks saves of the normalized input.
Extracted == extractCodeBlocks(normalize(input))

\* C12: each fenced block and each inline span that extractCodeBlocks saved is
\* put back by restoreCodeBlocks as saved and where it stood (restoring the
\* extracted text gives the text back), and the optimized text of the pipeline
\* holds every saved block, whatever the code holds ($ sequences included) and
\* also when the text holds a placeholder token of its own.
C12_CodeRoundTrip ==
    Returned("backendOptimizePrompt") =>
        /\ restoreCodeBlocks(Extracted.text, Extracted.codeBlocks) = normalize(input)
        /\ \A k \in DOMAIN Extracted.codeBlocks :
               Includes(result["backendOptimizePrompt"].optimized, Extracted.codeBlocks[k])

Intents == {"fix", "debug", "explain", "implement", "optimize", "general", "create"}

\* C13: the intent of every result, of the facade and of the server-side
\* optimizePrompt, is one of fix, debug, explain, implement, optimize, general,
\* create; and when isErrorLog classified the input as an error log, the intent
\* of the facade's result is debug.
C13_IntentClosed ==
    /\ \A call \in {"optimize", "backendOptimizePrompt"} :
           Returned(call) => result[call].intent \in Intents
    /\ (Returned("optimize") /\ Returned("isErrorLog") /\ result["isErrorLog"]) =>
           result["optimize"].intent = "debug"

\* A log without any of the words that detectIntent looks for, returned as debug.
C13_Witness ==
    /\ Returned("optimize") /\ Returned("isErrorLog") /\ result["isErrorLog"]
    /\ detectIntent(trim(input)) = "general"
    /\ result["optimize"].intent = "debug"

\* The buckets of the server-side detectIntent, in the order of the scan.
Buckets ==
    << [intent |-> "fix",
        words |-> {"error", "bug", "fix", "not working", "doesn't work", "broken"}],
       [intent |-> "explain",
        words |-> {"explain", "how does", "what is", "why does", "understand"}],
       [intent |-> "implement",
        words |-> {"create", "build", "implement", "make", "add", "write"}],
       [intent |-> "optimize",
        words |-> {"review", "optimize", "improve", "refactor", "better"}],
       [intent |-> "debug", words |-> {"debug", "console.log", "trace"}] >>

\* The buckets among the first n that have a keyword in the lower-cased input.
BucketsWith(n) ==
    { k \in 1..n : \E w \in Buckets[k].words : Includes(toLowerCase(input), w) }

FirstOf(n) == IF BucketsWith(n) = {} THEN "general" ELSE Buckets[MinOf(BucketsWith(n))].intent

\* C14 as stated: the scan goes through fix, explain, implement, optimize in
\* this order and returns the first bucket with a keyword in the text; a text
\* with no keyword of these four buckets yields general.
C14_FourBuckets ==
    Returned("backendOptimizePrompt") => result["backendOptimizePrompt"].intent = FirstOf(4)

\* C14 amended: the server-side scan goes through fix, explain, implement,
\* optimize, debug in this order and returns the first bucket with a keyword in
\* the lower-cased text; a text with no keyword of the five yields general. The
\* facade's detectIntent is another scan and yields debug, explain, create or
\* general for a prompt.
C14_FiveBuckets ==
    /\ Returned("backendOptimizePrompt") =>
           result["backendOptimizePrompt"].intent = FirstOf(5)
    /\ Returned("optimizePrompt") =>
           result["optimize"].intent \in {"debug", "explain", "create", "general"}

\* A text with a keyword of fix and one of explain yields fix, and the state is
\* one where the server-side scan has run.
C14_Witness ==
    /\ Returned("backendOptimizePrompt")
    /\ {1, 2} \subseteq BucketsWith(5)
    /\ result["backendOptimizePrompt"].intent = "fix"

\* No entry of xs occurs twice, letter case apart.
NoDuplicates(xs) ==
    \A j, k \in DOMAIN xs : j # k => toLowerCase(xs[j]) # toLowerCase(xs[k])

\* The entries of xs stand in the order of their first appearance in the input.
InOrderOfAppearance(xs) ==
    \A j, k \in DOMAIN xs :
        j < k => IndexOf(toLowerCase(input), toLowerCase(xs[j]))
                    <= IndexOf(toLowerCase(input), toLowerCase(xs[k]))

\* C15: in the result of extractConstraints no stack name, requirement or
\* constraint is listed twice (a stack name mentioned several times, in any
\* letter case, is listed once), and the entries of each list stand in the
\* order of their first appearance in the text.
C15_ListsWithoutDuplicates ==
    Returned("extractConstraints") =>
        \A list \in {"stack", "requirements", "constraints"} :
            /\ NoDuplicates(result["extractConstraints"][list])
            /\ InOrderOfAppearance(result["extractConstraints"][list])

Header == "Fix these errors:\n\n"

\* optimizeErrorLog has returned: scan is the state after the last flush.
Condensed == pc = "done" /\ Returned("optimizeErrorLog")

BeginsWithSections ==
    StartsWith(result["optimizeErrorLog"], Header \o join(scan.sections, "\n\n"))

\* C16 as stated: when at least one section was produced the output begins
\* with the header "Fix these errors:" followed by the sections separated by
\* blank lines; when no section was produced optimizeErrorLog returns its input.
C16_HeaderOrInput ==
    Condensed =>
        IF scan.sections # <<>> THEN BeginsWithSections
        ELSE result["optimizeErrorLog"] = input

\* C16 amended: with at least one section the output begins with the header
\* and the sections separated by blank lines; with no section but a banner
\* block it is the header, two blank lines and the banner block under the title
\* APPLICATION FAILED TO START; with neither it is the input.
C16_HeaderBannerOrInput ==
    Condensed =>
        IF scan.sections # <<>> THEN BeginsWithSections
        ELSE IF scan.appFailedBlock # <<>>
        THEN result["optimizeErrorLog"]
                = Header \o "\n\nAPPLICATION FAILED TO START\n"
                         \o join(filteredBlock(scan.appFailedBlock), "\n")
        ELSE result["optimizeErrorLog"] = input

\* The banner block alone was condensed: no section, and the output is not the input.
C16_Witness ==
    /\ Condensed
    /\ scan.sections = <<>> /\ scan.appFailedBlock # <<>>
    /\ StartsWith(result["optimizeErrorLog"], Header)
    /\ result["optimizeErrorLog"] # input

\* The savings of a returned result are a percentage, and 0 for an unchanged text.
SavingsInRange(op) ==
    Returned(op) =>
        /\ result[op].savings \in 0..100
        /\ result[op].optimized = trim(input) => result[op].savings = 0

\* C19: for every input the savings of the result, of the facade and of the
\* server, are an integer from 0 to 100, and 0 whenever the optimized text is
\* the trimmed original.
C19_SavingsInRange == SavingsInRange("optimize") /\ SavingsInRange("backendOptimizePrompt")

\* The server returned a text of more tokens than its input, with savings 0.
C19_Witness ==
    /\ Returned("backendOptimizePrompt")
    /\ input # ""
    /\ result["backendOptimizePrompt"].optimizedTokens
         > result["backendOptimizePrompt"].originalTokens
    /\ result["backendOptimizePrompt"].savings = 0

\* C18: for an empty or whitespace-only input optimize returns the all-zero
\* result (optimized "", originalTokens 0, optimizedTokens 0, savings 0, intent
\* general) and neither the classifier nor a rewriter has run.
C18_EmptyIsAllZero ==
    (Returned("optimize") /\ trim(input) = "") =>
        /\ result["optimize"]
             = [original |-> input, optimized |-> "", originalTokens |-> 0,
                optimizedTokens |-> 0, savings |-> 0, intent |-> "general",
                estimatedOutputSavings |-> 0]
        /\ DOMAIN result = {"optimize"}

\* optimize returned for an input of white space only.
C18_Witness ==
    /\ Returned("optimize")
    /\ input # "" /\ trim(input) = ""
    /\ result["optimize"].optimized = ""
    /\ ~Returned("isErrorLog")

\* The lines of the condensed output that match the internal/library denylist.
InternalLinesOut ==
    LET out == split(result["optimizeErrorLog"])
    IN { k \in 1..Len(out) : IsInternal(out[k]) }

\* C20: no stack-frame line that matches the internal/library denylist appears
\* in the condensed output, whatever its indentation and whatever lines
\* precede it.
C20_NoInternalFrame ==
    (Condensed /\ scan.sections # <<>>) => InternalLinesOut = {}

\* What a call returns when it is the first call on a new instance, in a
\* module that has just been loaded.
Alone(op, text) ==
    IF op = "optimize" THEN optimize(text)
    ELSE optimizePromptShared(ModuleLoaded, text).value

Scanning == pc = "scan" /\ i < Len(lines)

\* The line the next iteration processes, and the one after it.
Line == lines[i + 1]

NextLine == IF i + 2 <= Len(lines) THEN lines[i + 2] ELSE ""

\* The iteration that processes Line.
Iteration == Scanning /\ i' = i + 1

\* The line opens the banner block, or lies inside it.
InBanner ==
    \/ Test(starsEndRe, Line) /\ Includes(NextLine, "APPLICATION FAILED TO START")
    \/ scan.inAppFailedBlock

\* The line has the shape of a stack frame or of the source line of a frame.
HasFrameShape(line) ==
    \/ Test(atFrameRe, line)
    \/ Test(pythonFrameRe, line)
    \/ Test(goFrameRe, line)
    \/ Test(goFileRe, line)
    \/ Test(pythonCodeRe, line)

\* The sections are those of st, or those of st and its code-context buffer.
SectionsOrFlushed(st, sections) ==
    sections = st.sections \/ sections = flushCodeContext(st).sections

\* C21: after a declaration whose signature was already seen has forced the
\* frame counter to SkipFrames, and as long as the counter stays there, a
\* stack-frame line or frame source line adds nothing to the open block or to
\* the sections, and the counter stays forced.
C21_DuplicateSuppressesFrames ==
    [][(Iteration /\ ~InBanner /\ scan.stackFrameCount = SkipFrames /\ HasFrameShape(Line))
         => /\ scan'.currentError = scan.currentError
            /\ SectionsOrFlushed(scan, scan'.sections)
            /\ scan'.stackFrameCount = SkipFrames]_vars

\* A frame has been processed under the forced counter: the line before it was
\* a duplicate declaration.
C21_Witness ==
    /\ pc = "scan" /\ i >= 4
    /\ HasFrameShape(lines[i])
    /\ lines[i - 1] = lines[i - 3]
    /\ scan.stackFrameCount = SkipFrames
    /\ scan.currentError = <<>>

\* The state the rules see: a pending code context is flushed before them.
BeforeRules(st) ==
    IF st.inCodeContext /\ st.codeContext # <<>> THEN flushCodeContext(st) ELSE st

\* The line is a Python traceback header, a Go panic line or a goroutine header
\* that reaches its rule.
IsTraceback(line) == Test(tracebackRe, line)

IsPanic(line) == Test(goPanicRe, line)

IsGoroutine(line) == Test(goroutineRe, line)

IsOpener(line) == ~IsNoise(line) /\ (IsTraceback(line) \/ IsPanic(line) \/ IsGoroutine(line))

\* The block a panic line starts.
PanicBlock(line) == <<"panic: " \o Cap(line, Exec(goPanicRe, 1, line, 1), 1)>>

\* C22 as stated: each traceback, panic or goroutine opener flushes the open
\* error block to the sections and leaves the frame counter at 0, in every scan
\* state in which it can occur.
C22_OpenersFlushAndReset ==
    [][(Iteration /\ ~InBanner /\ IsOpener(Line))
         => /\ scan'.sections = flushError(BeforeRules(scan)).sections
            /\ scan'.currentError = IF IsPanic(Line) THEN PanicBlock(Line) ELSE <<>>
            /\ scan'.stackFrameCount = 0]_vars

\* C22 amended: a traceback header flushes the open block and sets the counter
\* to 0; a panic line flushes the open block and starts the block of the panic,
\* and the counter is 0 after it only if a block was open, otherwise it is left
\* as it was; a goroutine header flushes nothing and sets the counter to 0.
C22_OpenersByKind ==
    [][(Iteration /\ ~InBanner /\ IsOpener(Line))
         => LET st == BeforeRules(scan)
            IN IF IsPanic(Line)
               THEN /\ scan'.sections = flushError(st).sections
                    /\ scan'.currentError = PanicBlock(Line)
                    /\ scan'.stackFrameCount
                         = IF st.currentError = <<>> THEN st.stackFrameCount ELSE 0
               ELSE IF IsGoroutine(Line)
               THEN /\ scan'.sections = st.sections
                    /\ scan'.currentError = st.currentError
                    /\ scan'.stackFrameCount = 0
               ELSE /\ scan'.sections = flushError(st).sections
                    /\ scan'.currentError = <<>>
                    /\ scan'.stackFrameCount = 0]_vars

\* A goroutine header has been processed and the block of the panic is still
\* open; a panic line has been processed and the counter is still forced.
C22_Witness ==
    /\ pc = "scan" /\ i >= 1
    /\ \/ IsGoroutine(lines[i]) /\ scan.currentError = <<"panic: boom">>
       \/ IsPanic(lines[i]) /\ scan.stackFrameCount = SkipFrames

\* C23: in every reachable scan state a non-empty code-context buffer implies
\* an empty current-error buffer (a source line or pointer line is appended to
\* the buffer only when no error block is open, and none opens while it holds
\* lines).
C23_CodeContextMeansNoOpenError ==
    (pc = "scan" /\ scan.codeContext # <<>>) => scan.currentError = <<>>

\* /^INFO:\s+/ of noisePatterns.
InfoLineRe == <<Bol, Lit("INFO:"), Plus(<<Sp>>)>>

\* The lines of the input that start with INFO: and come back, trimmed, as a
\* line of the output.
InfoLinesOut ==
    LET out == split(result["optimizeErrorLog"])
    IN { k \in 1..Len(lines) :
           Test(InfoLineRe, lines[k]) /\ \E j \in 1..Len(out) : out[j] = trim(lines[k]) }

BannerStart ==
    Test(starsEndRe, Line) /\ Includes(NextLine, "APPLICATION FAILED TO START")

\* A dated log line or a separator (dashes followed by white space).
Terminator(line) == Test(dashSepRe, line) \/ Test(datedRe, line)

\* The scan state after the block has taken the line into its buffer.
Captured(st, line) == [st EXCEPT !.appFailedBlock = Append(@, trim(line))]

\* The scan state after the terminating line: the block is over and the line
\* has gone through the normal rules.
Terminated(st, line) == Dispatch([st EXCEPT !.inAppFailedBlock = FALSE], line)

\* C25 as stated: inside the banner block every line before the first dated
\* line or separator is captured into the block buffer and changes nothing
\* else; the terminating line ends the block and goes through the normal rules.
C25_BlockCapturesEveryLine ==
    [][(Iteration /\ scan.inAppFailedBlock /\ ~BannerStart) =>
          scan' = IF Terminator(Line) THEN Terminated(scan, Line)
                  ELSE Captured(scan, Line)]_vars

\* C25: inside the banner block a line before the first dated line or
\* separator changes nothing but the block buffer: a blank line and a line of
\* stars are dropped, any other line is appended, trimmed, to the buffer; the
\* terminating line ends the block and goes through the normal rules.
C25_BlockTakesEveryLine ==
    [][(Iteration /\ scan.inAppFailedBlock /\ ~BannerStart) =>
          scan' = IF Test(starsOnlyRe, Line) \/ trim(Line) = "" THEN scan
                  ELSE IF Terminator(Line) THEN Terminated(scan, Line)
                  ELSE Captured(scan, Line)]_vars

\* A separator has just ended a block that holds an exception declaration and
\* its frame, and no error block was opened for them.
C25_Witness ==
    /\ pc = "scan" /\ i >= 1
    /\ Terminator(lines[i])
    /\ ~scan.inAppFailedBlock
    /\ \E k \in 1..Len(scan.appFailedBlock) : Test(exceptionRe, scan.appFailedBlock[k])
    /\ \E k \in 1..Len(scan.appFailedBlock) : Test(atFrameRe, scan.appFailedBlock[k])
    /\ scan.currentError = <<>> /\ scan.sections = <<>>

\* The line is an exception declaration, a Python ERROR: line or a JS error line.
IsDeclaration(line) ==
    Test(exceptionRe, line) \/ Test(pythonErrorLineRe, line) \/ Test(jsErrorRe, line)

\* The step takes a declaration that records a signature seen for the first
\* time and leaves a block open that ends with the text pushed for it.
OpensNewBlock ==
    /\ Iteration /\ ~InBanner /\ ~IsNoise(Line) /\ IsDeclaration(Line)
    /\ scan'.seenErrors # scan.seenErrors
    /\ scan'.currentError # <<>> /\ scan'.currentError # scan.currentError

\* C26: a block opened by a declaration that records a first-seen signature
\* is not discarded by flushError because of that signature: flushing the
\* block right after it was opened adds a section. (The first line of a block
\* and the seen set never change while the block is open, so a block that the
\* flush would discard now is discarded whenever it is flushed.)
C26_OpenedBlockIsEmitted ==
    [][OpensNewBlock => flushError(scan').sections # scan'.sections]_vars

\* The line is an error opener of some kind: an exception declaration, a
\* Spring ERROR log line, a JS error line, a FAIL / ERROR in line, a test
\* bullet or a module-resolution error.
IsErrorOpener(line) ==
    \/ Test(exceptionRe, line) \/ Test(springLogRe, line) \/ Test(jsErrorRe, line)
    \/ Test(buildErrorRe, line) \/ Test(testBulletRe, line) \/ Test(moduleNotFoundRe, line)

\* The step takes an opener while the frames are suppressed and leaves a block
\* open for it (the opener was not a duplicate).
OpensWhileSuppressed ==
    /\ Iteration /\ ~InBanner /\ ~IsNoise(Line) /\ IsErrorOpener(Line)
    /\ scan.stackFrameCount = SkipFrames
    /\ scan'.currentError # <<>> /\ scan'.currentError # scan.currentError

\* C27: the suppression of frames forced by a duplicate (stackFrameCount =
\* 999) ends at the next newly seen error opener of any kind: the new error
\* starts with the frame counter at 0.
C27_OpenerEndsSuppression ==
    [][OpensWhileSuppressed => scan'.stackFrameCount = 0]_vars

\* The step takes a declaration whose signature was already seen (it leaves no
\* block open and suppresses the frames) while a block is open.
DuplicateWhilePending ==
    /\ Iteration /\ ~InBanner /\ ~IsNoise(Line) /\ IsDeclaration(Line)
    /\ scan.currentError # <<>>
    /\ scan'.currentError = <<>> /\ scan'.stackFrameCount = SkipFrames

\* C28: a duplicate declaration that arrives while another block is open does
\* not destroy that block: the sections after the step are those that
\* flushError gives for the open block (the block as a new section, unless
\* its own signature was already seen).
C28_DuplicateFlushesPending ==
    [][DuplicateWhilePending => scan'.sections = flushError(scan).sections]_vars

\* What the Python frame rule pushes for a frame line when there is room for
\* it: the frame with its path shortened, or nothing for an internal frame.
FrameText(line) ==
    PythonFrameRule(ScanInit, Exec(pythonFrameRe, 3, line, 1), line).currentError

\* The step takes an indented source line that follows a Python frame line
\* and pushes it onto the open block.
SourceLineRetained ==
    /\ Iteration /\ ~InBanner /\ ~IsNoise(Line) /\ i >= 1
    /\ Test(pythonFrameRe, lines[i])
    /\ Test(pythonCodeRe, Line) /\ ~Includes(Line, "File \"")
    /\ scan'.currentError = Append(scan.currentError, "    " \o trim(Line))

\* C29: the source line that follows a Python frame is retained only if the
\* frame was: when the source line is pushed, the last line of the open block
\* is that frame (not an internal frame, and not a frame over the cap of 3).
C29_SourceOnlyWithItsFrame ==
    [][SourceLineRetained =>
          /\ FrameText(lines[i]) # <<>>
          /\ scan.currentError # <<>>
          /\ scan.currentError[Len(scan.currentError)] = FrameText(lines[i])[1]]_vars

\* The step adds a section for its line and leaves open, as it was, a block
\* of earlier lines that a later flush emits after that section.
SectionOvertakesBlock ==
    /\ Iteration
    /\ Len(scan'.sections) > Len(scan.sections)
    /\ scan.currentError # <<>> /\ scan'.currentError = scan.currentError
    /\ flushError(scan').sections # scan'.sections

\* C30: sections keep the order of the input: no step emits a section for its
\* own line ahead of an open block whose lines came earlier (a GORM SQL: line
\* while an error block is open).
C30_SectionsInInputOrder ==
    [][~SectionOvertakesBlock]_vars

====
